---- MODULE Spec2Model ----
(***************************************************************************)
(* Model of the ABAC decision pipeline of access-control-explorer:         *)
(*   - the Enforcer (PEP) middleware,    examples/abac/internal/enforcer   *)
(*   - the request orchestrator,  examples/abac/internal/requestorchestrator*)
(*   - the decision maker (PDP),         abac/decisionmaker                *)
(* Each component talks to its collaborators through Go interfaces; under  *)
(* the specification of one component the collaborators' answers are drawn *)
(* nondeterministically from small sets.                                    *)
(***************************************************************************)
EXTENDS Integers, Sequences, FiniteSets, TLC

(***************************************************************************)
(* Bounds of the model.                                                    *)
(***************************************************************************)
MaxObligations == 2
MaxAdvices == 2
MaxAnalysers == 3
MaxResolvers == 2
MaxRefs == 2
MaxInserts == 3
MaxRegistrations == 3
MaxPolicyRequests == 3

(***************************************************************************)
(* Program constants.                                                      *)
(***************************************************************************)
StatusOK200 == 200
StatusBadRequest == 400
StatusForbidden == 403
StatusInternalServerError == 500

Permit == "Permit"
Deny == "Deny"
Indeterminate == "Indeterminate"
NotApplicable == "NotApplicable"
Decisions == {Permit, Deny, Indeterminate, NotApplicable}
\* Decision is a Go string type: a collaborator can hand back the zero value.
DecisionValues == Decisions \cup {""}

ObligationIDs == {"audit_logging", "x"}
AdviceIDs == {"cache_hint", "y"}

BoundedSeq(S, n) == UNION {[1..k -> S] : k \in 0..n}

\* errors are messages; fmt.Errorf("<prefix>: %w", err) prepends a part
NoError == <<>>
Wrap(prefix, err) == <<prefix>> \o err

VARIABLES
    \* ---- Enforcer (PEP), one HTTP request
    pepPc,              \* position of the Enforce middleware
    obligationHandlers, \* Enforcer.obligationHandlers (registered IDs)
    adviceHandlers,     \* Enforcer.adviceHandlers (registered IDs)
    extractErr,         \* the error returned by the request extractor (<<>>: nil)
    accessResp,         \* the AccessResponse returned by the orchestrator
    accessErr,          \* the error returned by the orchestrator (<<>>: nil)
    idx,                \* loop index of handleObligations / handleAdvice
    running,            \* TRUE while a handler's Handle call is executing
    httpStatus,         \* status written to the ResponseWriter (0: none)
    httpError,          \* ErrorResponse.Error written by errorHandler
    pepLog              \* history of the calls the middleware made

pepVars == <<pepPc, obligationHandlers, adviceHandlers, extractErr, accessResp, accessErr,
             idx, running, httpStatus, httpError, pepLog>>

VARIABLES
    \* ---- request orchestrator, one EvaluateAccess call
    roPc,           \* phase of EvaluateAccess
    enrichPc,       \* enrichment fan-out: position of the subject / resource task
    enrichErr,      \* first error recorded by the enrichment errgroup
    enriched,       \* EnrichedAccessRequest: Subject.Attributes, Resource.Attributes
    analyserIdx,    \* index of the next info analyser to call
    infoReqs,       \* GetInfoRequests collected from the analysers
    addPc,          \* additional-info fan-out: position of each task
    addResp,        \* resp.Info held by each task
    addErr,         \* first error recorded by the additional-info errgroup
    addMu,          \* the fan-out's sync.Mutex: 0 unlocked, else the task that locked it
    result,         \* getAdditionalInfo's result map (its keys)
    pdpCalls,       \* number of decisionMaker.MakeDecision calls made
    roErr,          \* error returned by EvaluateAccess (<<>>: nil)
    roResp          \* AccessResponse returned by EvaluateAccess

roVars == <<roPc, enrichPc, enrichErr, enriched, analyserIdx, infoReqs, addPc,
            addResp, addErr, addMu, result, pdpCalls, roErr, roResp>>

VARIABLES
    \* ---- decision maker (PDP), one MakeDecision call
    dmPc,           \* position of MakeDecision
    ctxCancelled,   \* the caller's context has been cancelled
    dmReq,          \* the *DecisionRequest argument (NilRequest: nil)
    processors,     \* decisionMaker.processors: number of registered resolvers
    resPc,          \* resolver fan-out: position of each task
    resPlan,        \* what each resolver's Resolve returns when its outputs are
                    \* fixed beforehand (<<>>: any output, chosen at the call)
    resOut,         \* what each resolver's Resolve returned
    seen,           \* resolve's deduplication map: policy ID -> version
    resErr,         \* first error recorded by the resolver errgroup
    policyRefs,     \* the references resolve returned
    providerCalls,  \* number of provider.GetPolicies calls made
    evaluatorCalls, \* number of evaluator.Evaluate calls made
    retrieveErr,    \* the err getPolicies returned to MakeDecision (<<>>: nil)
    evaluateErr,    \* the err evaluator.Evaluate returned (<<>>: nil)
    dmErr,          \* error returned by MakeDecision (<<>>: nil)
    dmResp          \* DecisionResponse returned by MakeDecision

dmVars == <<dmPc, ctxCancelled, dmReq, processors, resPlan, resPc, resOut, seen, resErr,
            policyRefs, providerCalls, evaluatorCalls, retrieveErr, evaluateErr,
            dmErr, dmResp>>

VARIABLES
    \* ---- route trie (pkg/trie), one Node used as the root
    trie,           \* the nodes, by the segments leading to them: Value, IsEnd
    trieLog,        \* history of the Insert calls: arguments, error, trie before
    trieLast        \* the last call when it was a Search, and what it returned

trieVars == <<trie, trieLog, trieLast>>

VARIABLES
    \* ---- request extractor: registration of operation extractors
    routes,         \* requestExtractor.operationExtractorTrie
    regLog,         \* history of the registerOperationExtractor calls and results
    selLast         \* the last extractOperation call and the extractor it selected

regVars == <<routes, regLog, selLast>>

VARIABLES
    \* ---- file-backed policy provider, one GetPolicies call
    prpPc,          \* position of GetPolicies
    prpCtx,         \* the context has been cancelled
    prpReqs,        \* for each request, whether its policy file can be read
    prpIdx,         \* index of the request the loop is at
    prpPolicies,    \* the policies slice (indices of the requests loaded)
    prpOut,         \* what GetPolicies returned
    prpLog          \* history of the context checks and policy loads

prpVars == <<prpPc, prpCtx, prpReqs, prpIdx, prpPolicies, prpOut, prpLog>>

VARIABLES
    \* ---- policy evaluation of the example: RBAC resolver, Rego policies,
    \* ---- result conversion, cache hint advice
    polPc,          \* position in the evaluation
    polReq,         \* the DecisionRequest (NilRequest: nil), with Subject.Attributes
    polInput,       \* what the Rego modules find in the input
    polRefs,        \* what rbacResolver.Resolve returned
    polValue,       \* the value of data.abac.result (a JSON object)
    polEval,        \* the EvaluationResult convertResult built
    polResp,        \* the AccessResponse handed to the PEP
    polHttp         \* the HTTP response: status and headers

polVars == <<polPc, polReq, polInput, polRefs, polValue, polEval, polResp, polHttp>>

VARIABLES
    \* ---- RBAC of the example, one EvaluateAccess call: user repository, RBAC
    \* ---- analyser, RBAC info provider, RBAC resolver and subject policy
    rbacPc,         \* position in EvaluateAccess and the PEP
    rbacUser,       \* the users row of the subject and the state of the database
    rbacReq,        \* the AccessRequest: subject, action, resource attributes
    rbacSubject,    \* EnrichedAccessRequest.Subject.Attributes
    rbacInfoReqs,   \* the GetInfoRequests of the RBAC analyser
    rbacEnv,        \* DecisionRequest.Environment (the additional info)
    rbacRefs,       \* what rbacResolver.Resolve returned for the DecisionRequest
    rbacApplicable, \* the (role, permission) pairs the subject policy applied
    rbacErr,        \* the error EvaluateAccess returns
    rbacHttp        \* the decision of the response and the HTTP status

rbacVars == <<rbacPc, rbacUser, rbacReq, rbacSubject, rbacInfoReqs, rbacEnv,
              rbacRefs, rbacApplicable, rbacErr, rbacHttp>>

libVars == <<trieVars, regVars, prpVars, polVars, rbacVars>>

vars == <<pepVars, roVars, dmVars, libVars>>

(***************************************************************************)
(* Enforcer                                                                *)
(***************************************************************************)
AccessResponses ==
    [Decision : DecisionValues,
     Obligations : BoundedSeq(ObligationIDs, MaxObligations),
     Advices : BoundedSeq(AdviceIDs, MaxAdvices)]

NoResponse == [Decision |-> "none", Obligations |-> <<>>, Advices |-> <<>>]

\* NewEnforcer with any set of WithObligationHandler / WithAdviceHandler options
InitPep ==
    /\ pepPc = "extract"
    /\ obligationHandlers \in SUBSET ObligationIDs
    /\ adviceHandlers \in SUBSET AdviceIDs
    /\ extractErr = NoError
    /\ accessResp = NoResponse
    /\ accessErr = NoError
    /\ idx = 0
    /\ running = FALSE
    /\ httpStatus = 0
    /\ httpError = ""
    /\ pepLog = <<>>

\* an error response after which Enforce does not return
errorHandlerFromContinuing(log, statusCode, err) ==
    /\ httpStatus' = statusCode
    /\ httpError' = err
    /\ pepLog' = Append(log, <<"errorHandler", statusCode, err>>)
    /\ pepPc' = "next"

\* e.errorHandler(w, r, statusCode, ErrorResponse{Error: err}); return
\* (log: the history up to the call)
errorHandlerFrom(log, statusCode, err) ==
    /\ httpStatus' = statusCode
    /\ httpError' = err
    /\ pepLog' = Append(log, <<"errorHandler", statusCode, err>>)
    /\ pepPc' = "done"

\* an error handler that answers every error with 500
errorHandlerAlways500(statusCode, err) ==
    errorHandlerFrom(pepLog, StatusInternalServerError, err)

errorHandler(statusCode, err) == errorHandlerFrom(pepLog, statusCode, err)

\* handler, exists := e.obligationHandlers[obligation.ID]
obligationHandlerExists(id) == id \in obligationHandlers

\* handler, exists := e.adviceHandlers[advice.ID]
adviceHandlerExists(id) == id \in adviceHandlers

\* the errors EvaluateAccess returns: the wrapped error of the step that failed
EvaluateAccessErrors ==
    {Wrap("failed to enrich request", <<"failed to get subject info">>),
     Wrap("failed to analyze requirements", <<"analyser failed">>),
     Wrap("failed to get additional info", <<"duplicate info for", "role_hierarchy">>),
     Wrap("failed to make decision", <<"decision request cannot be nil">>)}

\* accessReq, err := e.requestExtractor.Extract(ctx, r)
PepExtract ==
    /\ pepPc = "extract"
    /\ \E ok \in BOOLEAN :
        IF ok
        THEN /\ pepPc' = "evaluate"
             /\ UNCHANGED <<extractErr, httpStatus, httpError, pepLog>>
        ELSE /\ extractErr' = <<"extraction failed">>
             /\ errorHandler(StatusBadRequest, "request_extraction_failed")
    /\ UNCHANGED <<obligationHandlers, adviceHandlers, accessResp, idx, running>>
    /\ UNCHANGED accessErr
    /\ UNCHANGED <<roVars, dmVars, libVars>>

\* the branch of `switch accessResp.Decision` taken for decision d
DecisionBranch(d) ==
    CASE d = Permit -> "handlers"
      [] d = Deny -> "handlers"
      [] d = NotApplicable -> "forbidden"
      [] d = Indeterminate -> "indeterminate"
      [] OTHER -> "none"

\* accessResp, err := e.orchestrator.EvaluateAccess(ctx, accessReq), then the switch
PepDispatch(resp) ==
    /\ accessResp' = resp
    /\ LET b == DecisionBranch(resp.Decision) IN
        CASE b = "handlers" ->
                /\ pepPc' = "obligations"
                /\ idx' = 1
                /\ UNCHANGED <<httpStatus, httpError, pepLog>>
          [] b = "forbidden" ->
                /\ errorHandler(StatusForbidden, "access_denied")
                /\ UNCHANGED idx
          [] b = "indeterminate" ->
                /\ errorHandler(StatusInternalServerError, "indeterminate_decision")
                /\ UNCHANGED idx
          [] OTHER ->
                /\ pepPc' = "done"
                /\ UNCHANGED <<idx, httpStatus, httpError, pepLog>>

PepEvaluateAccess ==
    /\ pepPc = "evaluate"
    /\ \/ /\ \E resp \in AccessResponses : PepDispatch(resp)
          /\ UNCHANGED accessErr
       \/ /\ \E err \in EvaluateAccessErrors : accessErr' = err
          /\ errorHandler(StatusInternalServerError, "access_evaluation_failed")
          /\ UNCHANGED <<accessResp, idx>>
    /\ UNCHANGED <<obligationHandlers, adviceHandlers, running>>
    /\ UNCHANGED extractErr
    /\ UNCHANGED <<roVars, dmVars, libVars>>

\* `for _, obligation := range obligations`: the loop is over at index i
obligationsExhaustedOffByOne(i, obligations) == i >= Len(obligations)

obligationsExhausted(i, obligations) == i > Len(obligations)

\* `for _, advice := range advices`: the loop is over at index i
advicesExhausted(i, advices) == i > Len(advices)

ObligationsOutcomeIgnoringError(decision, err) == "advices"

ObligationsOutcomeAlwaysFatal(decision, err) ==
    IF err THEN "obligation_failed" ELSE "advices"

\* what Enforce does once handleObligations has returned (err: it returned an error)
ObligationsOutcome(decision, err) ==
    IF decision = Permit /\ err THEN "obligation_failed" ELSE "advices"

AfterObligations(log, err) ==
    IF ObligationsOutcome(accessResp.Decision, err) = "obligation_failed"
    THEN /\ errorHandlerFrom(log, StatusInternalServerError, "obligation_failed")
         /\ UNCHANGED idx
    ELSE /\ pepPc' = "advices"
         /\ idx' = 1
         /\ pepLog' = log
         /\ UNCHANGED <<httpStatus, httpError>>

\* handleObligations: the loop reaches an obligation whose handler is registered
PepObligationStart ==
    /\ pepPc = "obligations" /\ ~running
    /\ ~obligationsExhausted(idx, accessResp.Obligations)
    /\ obligationHandlerExists(accessResp.Obligations[idx])
    /\ running' = TRUE
    /\ pepLog' = Append(pepLog, <<"obligation_start", idx>>)
    /\ UNCHANGED <<pepPc, obligationHandlers, adviceHandlers, accessResp, idx,
                   httpStatus, httpError>>
    /\ UNCHANGED accessErr
    /\ UNCHANGED extractErr
    /\ UNCHANGED <<roVars, dmVars, libVars>>

\* handleObligations: no handler registered, return an error
PepObligationMissing ==
    /\ pepPc = "obligations" /\ ~running
    /\ ~obligationsExhausted(idx, accessResp.Obligations)
    /\ ~obligationHandlerExists(accessResp.Obligations[idx])
    /\ AfterObligations(pepLog, TRUE)
    /\ UNCHANGED <<obligationHandlers, adviceHandlers, accessResp, running>>
    /\ UNCHANGED accessErr
    /\ UNCHANGED extractErr
    /\ UNCHANGED <<roVars, dmVars, libVars>>

\* handleObligations: handler.Handle returns nil (next obligation) or an error
\* (handleObligations returns it)
PepObligationReturn ==
    /\ pepPc = "obligations" /\ running
    /\ running' = FALSE
    /\ \E err \in BOOLEAN :
        IF err
        THEN AfterObligations(Append(pepLog, <<"obligation_end", idx, "error">>), TRUE)
        ELSE /\ pepLog' = Append(pepLog, <<"obligation_end", idx, "ok">>)
             /\ idx' = idx + 1
             /\ UNCHANGED <<pepPc, httpStatus, httpError>>
    /\ UNCHANGED <<obligationHandlers, adviceHandlers, accessResp>>
    /\ UNCHANGED accessErr
    /\ UNCHANGED extractErr
    /\ UNCHANGED <<roVars, dmVars, libVars>>

\* handleObligations: the loop is over, return nil
PepObligationsComplete ==
    /\ pepPc = "obligations" /\ ~running
    /\ obligationsExhausted(idx, accessResp.Obligations)
    /\ AfterObligations(pepLog, FALSE)
    /\ UNCHANGED <<obligationHandlers, adviceHandlers, accessResp, running>>
    /\ UNCHANGED accessErr
    /\ UNCHANGED extractErr
    /\ UNCHANGED <<roVars, dmVars, libVars>>

AdviceOutcomeFallingThrough(decision) == "next"

AdviceOutcomeDenying(decision) == "access_denied"

\* a handleAdvice that goes on with its loop after a handler's error
AfterAdviceContinuing(log) ==
    /\ pepLog' = log
    /\ UNCHANGED <<pepPc, httpStatus, httpError>>

\* what Enforce does once handleAdvice has returned (its error is only logged)
AdviceOutcome(decision) ==
    IF decision = Permit THEN "next" ELSE "access_denied"

AfterAdvice(log) ==
    IF AdviceOutcome(accessResp.Decision) = "next"
    THEN /\ pepPc' = "next"
         /\ pepLog' = log
         /\ UNCHANGED <<httpStatus, httpError>>
    ELSE errorHandlerFrom(log, StatusForbidden, "access_denied")

\* handleAdvice: the loop reaches an advice whose handler is registered
PepAdviceStart ==
    /\ pepPc = "advices" /\ ~running
    /\ ~advicesExhausted(idx, accessResp.Advices)
    /\ adviceHandlerExists(accessResp.Advices[idx])
    /\ running' = TRUE
    /\ pepLog' = Append(pepLog, <<"advice_start", idx>>)
    /\ UNCHANGED <<pepPc, obligationHandlers, adviceHandlers, accessResp, idx,
                   httpStatus, httpError>>
    /\ UNCHANGED accessErr
    /\ UNCHANGED extractErr
    /\ UNCHANGED <<roVars, dmVars, libVars>>

\* handleAdvice: no handler registered, continue with the next advice
PepAdviceSkip ==
    /\ pepPc = "advices" /\ ~running
    /\ ~advicesExhausted(idx, accessResp.Advices)
    /\ ~adviceHandlerExists(accessResp.Advices[idx])
    /\ idx' = idx + 1
    /\ UNCHANGED <<pepPc, obligationHandlers, adviceHandlers, accessResp, running,
                   httpStatus, httpError, pepLog>>
    /\ UNCHANGED accessErr
    /\ UNCHANGED extractErr
    /\ UNCHANGED <<roVars, dmVars, libVars>>

\* handleAdvice: handler.Handle returns nil (next advice) or an error
\* (handleAdvice returns it, Enforce logs it)
PepAdviceReturn ==
    /\ pepPc = "advices" /\ running
    /\ running' = FALSE
    /\ \E err \in BOOLEAN :
        IF err
        THEN /\ AfterAdvice(Append(pepLog, <<"advice_end", idx, "error">>))
             /\ UNCHANGED idx
        ELSE /\ pepLog' = Append(pepLog, <<"advice_end", idx, "ok">>)
             /\ idx' = idx + 1
             /\ UNCHANGED <<pepPc, httpStatus, httpError>>
    /\ UNCHANGED <<obligationHandlers, adviceHandlers, accessResp>>
    /\ UNCHANGED accessErr
    /\ UNCHANGED extractErr
    /\ UNCHANGED <<roVars, dmVars, libVars>>

\* handleAdvice: the loop is over, return nil
PepAdvicesComplete ==
    /\ pepPc = "advices" /\ ~running
    /\ advicesExhausted(idx, accessResp.Advices)
    /\ AfterAdvice(pepLog)
    /\ UNCHANGED <<obligationHandlers, adviceHandlers, accessResp, idx, running>>
    /\ UNCHANGED accessErr
    /\ UNCHANGED extractErr
    /\ UNCHANGED <<roVars, dmVars, libVars>>

\* next.ServeHTTP(w, r): the downstream handler writes the response
PepServeHTTP ==
    /\ pepPc = "next"
    /\ pepLog' = Append(pepLog, <<"next">>)
    /\ httpStatus' = StatusOK200
    /\ pepPc' = "done"
    /\ UNCHANGED <<obligationHandlers, adviceHandlers, accessResp, idx, running,
                   httpError>>
    /\ UNCHANGED accessErr
    /\ UNCHANGED extractErr
    /\ UNCHANGED <<roVars, dmVars, libVars>>

NextEnforcer ==
    \/ PepExtract
    \/ PepEvaluateAccess
    \/ PepObligationStart
    \/ PepObligationMissing
    \/ PepObligationReturn
    \/ PepObligationsComplete
    \/ PepAdviceStart
    \/ PepAdviceSkip
    \/ PepAdviceReturn
    \/ PepAdvicesComplete
    \/ PepServeHTTP

(***************************************************************************)
(* Request orchestrator                                                    *)
(***************************************************************************)
EnrichTasks == {"subject", "resource"}
AttrKeys == {"roles"}
InfoKeys == {"role_hierarchy", "role_permissions"}
RequestIDs == {"uuid-1", "uuid-2"}

\* a Go map[string]any, by its keys; the nil map is distinct from the empty one
NilMap == [isNil |-> TRUE, keys |-> {}]
MapOf(K) == [isNil |-> FALSE, keys |-> K]

\* what the PIP can answer to the subject / resource fetch
EnrichInfos == {NilMap} \cup {MapOf(K) : K \in SUBSET AttrKeys}

NoAccessResponse ==
    [RequestID |-> "", Decision |-> "none", Obligations |-> <<>>, Advices |-> <<>>]

\* EvaluateAccess is entered: enrichAccessRequest has built the request with two
\* empty attribute maps and started its two tasks
InitRo ==
    /\ roPc = "enrich"
    /\ enrichPc = [t \in EnrichTasks |-> "getinfo"]
    /\ enrichErr = NoError
    /\ enriched = [t \in EnrichTasks |-> MapOf({})]
    /\ analyserIdx = 0
    /\ infoReqs = <<>>
    /\ addPc = <<>>
    /\ addResp = <<>>
    /\ addErr = NoError
    /\ addMu = 0
    /\ result = {}
    /\ pdpCalls = 0
    /\ roErr = NoError
    /\ roResp = NoAccessResponse

IdlePep ==
    /\ pepPc = "idle"
    /\ obligationHandlers = {}
    /\ adviceHandlers = {}
    /\ extractErr = NoError
    /\ accessResp = NoResponse
    /\ accessErr = NoError
    /\ idx = 0
    /\ running = FALSE
    /\ httpStatus = 0
    /\ httpError = ""
    /\ pepLog = <<>>

IdleRo ==
    /\ roPc = "idle"
    /\ enrichPc = [t \in EnrichTasks |-> "idle"]
    /\ enrichErr = NoError
    /\ enriched = [t \in EnrichTasks |-> MapOf({})]
    /\ analyserIdx = 0
    /\ infoReqs = <<>>
    /\ addPc = <<>>
    /\ addResp = <<>>
    /\ addErr = NoError
    /\ addMu = 0
    /\ result = {}
    /\ pdpCalls = 0
    /\ roErr = NoError
    /\ roResp = NoAccessResponse

\* a group that forgets the errors its tasks return
firstErrorForgotten(recorded, err) == recorded

\* errgroup.Group: the first non-nil error returned by a task is kept
firstError(recorded, err) == IF recorded = NoError THEN err ELSE recorded

groupDoneAfterFirstTask(pcs) == \E t \in DOMAIN pcs : pcs[t] \in {"ok", "err"}

\* errgroup.Group.Wait returns once every task has returned
\* a Wait that does not wait
groupDoneWithoutWaiting(pcs) == TRUE

groupDone(pcs) == \A t \in DOMAIN pcs : pcs[t] \in {"ok", "err"}

\* enrichAccessRequest: the task's GetInfo call returns; on success the task
\* assigns resp.Info to the attributes under the mutex and returns nil
EnrichTask(t) ==
    /\ roPc = "enrich"
    /\ enrichPc[t] = "getinfo"
    /\ \/ \E info \in EnrichInfos :
             /\ enriched' = [enriched EXCEPT ![t] = info]
             /\ enrichPc' = [enrichPc EXCEPT ![t] = "ok"]
             /\ UNCHANGED enrichErr
       \/ /\ enrichPc' = [enrichPc EXCEPT ![t] = "err"]
          /\ enrichErr' = firstError(enrichErr,
                 <<IF t = "subject" THEN "failed to get subject info"
                   ELSE "failed to get resource info">>)
          /\ UNCHANGED enriched
    /\ UNCHANGED <<roPc, analyserIdx, infoReqs, addPc, addResp, addErr, addMu,
                   result, pdpCalls, roErr, roResp>>
    /\ UNCHANGED <<pepVars, dmVars, libVars>>

\* return enrichedReq, g.Wait(); EvaluateAccess checks the error
EnrichWait ==
    /\ roPc = "enrich"
    /\ groupDone(enrichPc)
    /\ IF enrichErr # NoError
       THEN /\ roErr' = Wrap("failed to enrich request", enrichErr)
            /\ roPc' = "done"
            /\ UNCHANGED analyserIdx
       ELSE /\ roPc' = "analyse"
            /\ analyserIdx' = 1
            /\ UNCHANGED roErr
    /\ UNCHANGED <<enrichPc, enrichErr, enriched, infoReqs, addPc, addResp, addErr,
                   addMu, result, pdpCalls, roResp>>
    /\ UNCHANGED <<pepVars, dmVars, libVars>>

\* AnalyseInfoRequirements: one analyser is called; it answers nil, one request
\* (named after the analyser), or an error
Analyse ==
    /\ roPc = "analyse"
    /\ analyserIdx <= MaxAnalysers
    /\ \/ /\ analyserIdx' = analyserIdx + 1
          /\ UNCHANGED <<infoReqs, roErr, roPc>>
       \/ /\ analyserIdx' = analyserIdx + 1
          /\ infoReqs' = Append(infoReqs, analyserIdx)
          /\ UNCHANGED <<roErr, roPc>>
       \/ /\ roErr' = Wrap("failed to analyze requirements", <<"analyser failed">>)
          /\ roPc' = "done"
          /\ UNCHANGED <<analyserIdx, infoReqs>>
    /\ UNCHANGED <<enrichPc, enrichErr, enriched, addPc, addResp, addErr, addMu,
                   result, pdpCalls, roResp>>
    /\ UNCHANGED <<pepVars, dmVars, libVars>>

\* the analyser loop is over; getAdditionalInfo returns an empty map when there
\* is nothing to fetch and otherwise starts one task per request
StartAdditionalInfo ==
    /\ roPc = "analyse"
    /\ analyserIdx > MaxAnalysers
    /\ IF Len(infoReqs) = 0
       THEN /\ roPc' = "decide"
            /\ UNCHANGED <<addPc, addResp>>
       ELSE /\ roPc' = "fetch"
            /\ addPc' = [i \in 1..Len(infoReqs) |-> "getinfo"]
            /\ addResp' = [i \in 1..Len(infoReqs) |-> {}]
    /\ UNCHANGED <<enrichPc, enrichErr, enriched, analyserIdx, infoReqs, addErr,
                   addMu, result, pdpCalls, roErr, roResp>>
    /\ UNCHANGED <<pepVars, dmVars, libVars>>

\* getAdditionalInfo task: resp, err := o.infoProvider.GetInfo(ctx, &req)
AddGetInfo(t) ==
    /\ roPc = "fetch"
    /\ addPc[t] = "getinfo"
    /\ \/ \E K \in SUBSET InfoKeys :
             /\ addResp' = [addResp EXCEPT ![t] = K]
             /\ addPc' = [addPc EXCEPT ![t] = "lock"]
             /\ UNCHANGED addErr
       \/ /\ addPc' = [addPc EXCEPT ![t] = "err"]
          /\ addErr' = firstError(addErr, <<"failed to get info for", infoReqs[t]>>)
          /\ UNCHANGED addResp
    /\ UNCHANGED <<roPc, enrichPc, enrichErr, enriched, analyserIdx, infoReqs,
                   addMu, result, pdpCalls, roErr, roResp>>
    /\ UNCHANGED <<pepVars, dmVars, libVars>>

\* getAdditionalInfo task: mu.Lock()
AddLock(t) ==
    /\ roPc = "fetch"
    /\ addPc[t] = "lock"
    /\ addMu = 0
    /\ addMu' = t
    /\ addPc' = [addPc EXCEPT ![t] = "merge"]
    /\ UNCHANGED <<roPc, enrichPc, enrichErr, enriched, analyserIdx, infoReqs,
                   addResp, addErr, result, pdpCalls, roErr, roResp>>
    /\ UNCHANGED <<pepVars, dmVars, libVars>>

\* the state of the mutex when the merge loop ends: mu.Unlock() is reached only
\* when no key collided; the `return fmt.Errorf("duplicate info ...")` inside the
\* loop leaves it locked
mutexAfterMerge(t, collided) == IF collided THEN t ELSE 0

\* getAdditionalInfo task: the loop over resp.Info (in Go's map order), then
\* mu.Unlock() and return nil, or the return on the first key already present
AddMerge(t) ==
    /\ roPc = "fetch"
    /\ addPc[t] = "merge"
    /\ LET dup == addResp[t] \cap result IN
        IF dup = {}
        THEN /\ result' = result \cup addResp[t]
             /\ addMu' = mutexAfterMerge(t, FALSE)
             /\ addPc' = [addPc EXCEPT ![t] = "ok"]
             /\ UNCHANGED addErr
        ELSE \E k \in dup : \E before \in SUBSET (addResp[t] \ dup) :
             /\ result' = result \cup before
             /\ addMu' = mutexAfterMerge(t, TRUE)
             /\ addPc' = [addPc EXCEPT ![t] = "err"]
             /\ addErr' = firstError(addErr, <<"duplicate info for", k>>)
    /\ UNCHANGED <<roPc, enrichPc, enrichErr, enriched, analyserIdx, infoReqs,
                   addResp, pdpCalls, roErr, roResp>>
    /\ UNCHANGED <<pepVars, dmVars, libVars>>

\* return result, g.Wait(); EvaluateAccess checks the error
AddWait ==
    /\ roPc = "fetch"
    /\ groupDone(addPc)
    /\ IF addErr # NoError
       THEN /\ roErr' = Wrap("failed to get additional info", addErr)
            /\ roPc' = "done"
       ELSE /\ roPc' = "decide"
            /\ UNCHANGED roErr
    /\ UNCHANGED <<enrichPc, enrichErr, enriched, analyserIdx, infoReqs, addPc,
                   addResp, addErr, addMu, result, pdpCalls, roResp>>
    /\ UNCHANGED <<pepVars, dmVars, libVars>>

\* what a DecisionMaker can answer (the interface, not this repository's PDP)
DecisionResponses ==
    [RequestID : RequestIDs,
     Decision : DecisionValues,
     Obligations : BoundedSeq(ObligationIDs, 1),
     Advice : BoundedSeq(AdviceIDs, 1)]

toAccessResponse(resp) ==
    [RequestID |-> resp.RequestID,
     Decision |-> resp.Decision,
     Obligations |-> resp.Obligations,
     Advices |-> resp.Advice]

\* resp, err := o.decisionMaker.MakeDecision(ctx, createDecisionRequest(...))
Decide ==
    /\ roPc = "decide"
    /\ pdpCalls' = pdpCalls + 1
    /\ roPc' = "done"
    /\ \/ \E resp \in DecisionResponses :
             /\ roResp' = toAccessResponse(resp)
             /\ UNCHANGED roErr
       \/ /\ roErr' = Wrap("failed to make decision", <<"decision failed">>)
          /\ UNCHANGED roResp
    /\ UNCHANGED <<enrichPc, enrichErr, enriched, analyserIdx, infoReqs, addPc,
                   addResp, addErr, addMu, result>>
    /\ UNCHANGED <<pepVars, dmVars, libVars>>

NextOrchestrator ==
    \/ \E t \in EnrichTasks : EnrichTask(t)
    \/ EnrichWait
    \/ Analyse
    \/ StartAdditionalInfo
    \/ \E t \in DOMAIN addPc : AddGetInfo(t)
    \/ \E t \in DOMAIN addPc : AddLock(t)
    \/ \E t \in DOMAIN addPc : AddMerge(t)
    \/ AddWait
    \/ Decide

(***************************************************************************)
(* Decision maker                                                          *)
(***************************************************************************)
PolicyIDs == {"p", "q"}
Versions == {"v1", "v2"}
PolicyIdReference(id, version) == [ID |-> id, Version |-> version]
\* the references a resolver can name
Refs == {PolicyIdReference("p", "v1"), PolicyIdReference("p", "v2"),
         PolicyIdReference("q", "v1")}

StatusOK == "OK"
StatusMissingAttribute == "AttributeMissing"
StatusProcessingError == "ProcessingError"
StatusInvalidRequest == "InvalidRequest"
StatusPolicyNotFound == "PolicyNotFound"
StatusEvaluationError == "EvaluationError"

NilRequest == [isNil |-> TRUE, RequestID |-> ""]
DecisionRequest(id) == [isNil |-> FALSE, RequestID |-> id]

NoDecisionResponse ==
    [RequestID |-> "", Decision |-> "none", StatusCode |-> "", Message |-> <<>>,
     Obligations |-> <<>>, Advice |-> <<>>, PolicyIdReferences |-> {}]

\* what a resolver's Resolve returned: nothing yet, an error, or a list
NotResolved == [kind |-> "none", refs |-> <<>>]
ResolveError == [kind |-> "error", refs |-> <<>>]
Resolved(refs) == [kind |-> "refs", refs |-> refs]
ResolverResults == {Resolved(r) : r \in BoundedSeq(Refs, MaxRefs)}

\* what a PolicyEvaluator can answer
EvaluationResults ==
    [Decision : DecisionValues,
     StatusCode : {StatusOK, StatusPolicyNotFound},
     Obligations : BoundedSeq(ObligationIDs, 1),
     Advice : BoundedSeq(AdviceIDs, 1)]

EmptySeen == [id \in {} |-> ""]

\* MakeDecision is called on a decision maker built by NewDecisionMaker with any
\* number of WithPolicyResolver options
InitDm ==
    /\ dmPc = "call"
    /\ ctxCancelled \in BOOLEAN
    /\ dmReq \in {NilRequest, DecisionRequest("uuid-1")}
    /\ processors \in 0..MaxResolvers
    /\ resPlan = <<>>
    /\ resPc = <<>>
    /\ resOut = <<>>
    /\ seen = EmptySeen
    /\ resErr = NoError
    /\ policyRefs = {}
    /\ providerCalls = 0
    /\ evaluatorCalls = 0
    /\ retrieveErr = NoError
    /\ evaluateErr = NoError
    /\ dmErr = NoError
    /\ dmResp = NoDecisionResponse

IdleDm ==
    /\ dmPc = "idle"
    /\ ctxCancelled = FALSE
    /\ dmReq = NilRequest
    /\ processors = 0
    /\ resPlan = <<>>
    /\ resPc = <<>>
    /\ resOut = <<>>
    /\ seen = EmptySeen
    /\ resErr = NoError
    /\ policyRefs = {}
    /\ providerCalls = 0
    /\ evaluatorCalls = 0
    /\ retrieveErr = NoError
    /\ evaluateErr = NoError
    /\ dmErr = NoError
    /\ dmResp = NoDecisionResponse

\* an error response that leaves PolicyIdReferences unset
ErrorResponseWithoutRefs(req, decision, code, message, refs) ==
    [RequestID |-> req.RequestID, Decision |-> decision, StatusCode |-> code,
     Message |-> message, Obligations |-> <<>>, Advice |-> <<>>,
     PolicyIdReferences |-> {}]

\* the DecisionResponse literals of MakeDecision's error paths
ErrorResponse(req, decision, code, message, refs) ==
    [RequestID |-> req.RequestID, Decision |-> decision, StatusCode |-> code,
     Message |-> message, Obligations |-> <<>>, Advice |-> <<>>,
     PolicyIdReferences |-> refs]

\* a final response that leaves RequestID unset
FinalResponseWithoutRequestID(req, res, refs) ==
    [RequestID |-> "", Decision |-> res.Decision,
     StatusCode |-> res.StatusCode, Message |-> <<>>,
     Obligations |-> res.Obligations, Advice |-> res.Advice,
     PolicyIdReferences |-> refs]

\* the final DecisionResponse literal of MakeDecision
FinalResponse(req, res, refs) ==
    [RequestID |-> req.RequestID, Decision |-> res.Decision,
     StatusCode |-> res.StatusCode, Message |-> <<>>,
     Obligations |-> res.Obligations, Advice |-> res.Advice,
     PolicyIdReferences |-> refs]

\* a failed resolution answered as if no policy applied
ResolveFailedAsNotApplicable(req, err) ==
    ErrorResponse(req, NotApplicable, StatusPolicyNotFound,
                  Wrap("Failed to resolve policies", err), {})

\* MakeDecision's answer once resolve has failed with err
ResolveFailed(req, err) ==
    ErrorResponse(req, Indeterminate, StatusProcessingError,
                  Wrap("Failed to resolve policies", err), {})

\* the caller cancels the context while MakeDecision runs
CancelCtx ==
    /\ dmPc \in {"call", "resolve", "retrieve", "evaluate"}
    /\ ~ctxCancelled
    /\ ctxCancelled' = TRUE
    /\ UNCHANGED <<dmPc, dmReq, processors, resPc, resOut, seen, resErr,
                   policyRefs, providerCalls, evaluatorCalls, dmErr, dmResp>>
    /\ UNCHANGED <<retrieveErr, evaluateErr>>
    /\ UNCHANGED resPlan
    /\ UNCHANGED <<pepVars, roVars, libVars>>

requestIsNilUnchecked(req) == FALSE

\* if req == nil
requestIsNil(req) == req.isNil

\* MakeDecision up to the start of the resolver tasks: the nil check, and
\* resolve's check that processors are configured
MakeDecisionCall ==
    /\ dmPc = "call"
    /\ IF requestIsNil(dmReq)
       THEN /\ dmErr' = <<"decision request cannot be nil">>
            /\ dmPc' = "done"
            /\ UNCHANGED <<resPc, resOut, dmResp>>
       ELSE IF processors = 0
       THEN /\ dmResp' = ResolveFailed(dmReq, <<"no policy resolve processors configured">>)
            /\ dmPc' = "done"
            /\ UNCHANGED <<resPc, resOut, dmErr>>
       ELSE /\ resPc' = [t \in 1..processors |-> "start"]
            /\ resOut' = [t \in 1..processors |-> NotResolved]
            /\ dmPc' = "resolve"
            /\ UNCHANGED <<dmErr, dmResp>>
    /\ UNCHANGED <<ctxCancelled, dmReq, processors, seen, resErr, policyRefs,
                   providerCalls, evaluatorCalls>>
    /\ UNCHANGED <<retrieveErr, evaluateErr>>
    /\ UNCHANGED resPlan
    /\ UNCHANGED <<pepVars, roVars, libVars>>

\* a derived context that does not follow its parent's cancellation
groupCtxDoneIgnoringParent(cancelled, recorded) == recorded # NoError

\* the errgroup's derived context: done when the parent is cancelled or a task
\* has returned an error
groupCtxDone(cancelled, recorded) == cancelled \/ recorded # NoError

\* resolver task: select { case <-ctx.Done(): return ctx.Err(); default: }
ResolverCheckCtx(t) ==
    /\ dmPc = "resolve"
    /\ resPc[t] = "start"
    /\ IF groupCtxDone(ctxCancelled, resErr)
       THEN /\ resPc' = [resPc EXCEPT ![t] = "err"]
            /\ resErr' = firstError(resErr, <<"context canceled">>)
       ELSE /\ resPc' = [resPc EXCEPT ![t] = "resolve"]
            /\ UNCHANGED resErr
    /\ UNCHANGED <<dmPc, ctxCancelled, dmReq, processors, resOut, seen,
                   policyRefs, providerCalls, evaluatorCalls, dmErr, dmResp>>
    /\ UNCHANGED <<retrieveErr, evaluateErr>>
    /\ UNCHANGED resPlan
    /\ UNCHANGED <<pepVars, roVars, libVars>>

\* what resolver t's Resolve can return: the output fixed for it, or any
ResolverOutputs(t) ==
    IF resPlan = <<>> THEN ResolverResults \cup {ResolveError} ELSE {resPlan[t]}

\* resolver task: results, err := proc.Resolve(ctx, req), the error return and
\* the return for an empty list
ResolverResolve(t) ==
    /\ dmPc = "resolve"
    /\ resPc[t] = "resolve"
    /\ \E out \in ResolverOutputs(t) :
        IF out # ResolveError
        THEN /\ resOut' = [resOut EXCEPT ![t] = out]
             /\ resPc' = [resPc EXCEPT ![t] =
                            IF Len(out.refs) = 0 THEN "ok" ELSE "merge"]
             /\ UNCHANGED resErr
        ELSE /\ resOut' = [resOut EXCEPT ![t] = ResolveError]
             /\ resPc' = [resPc EXCEPT ![t] = "err"]
             /\ resErr' = firstError(resErr, <<"resolver failed">>)
    /\ UNCHANGED <<dmPc, ctxCancelled, dmReq, processors, seen, policyRefs,
                   providerCalls, evaluatorCalls, dmErr, dmResp>>
    /\ UNCHANGED <<retrieveErr, evaluateErr>>
    /\ UNCHANGED resPlan
    /\ UNCHANGED <<pepVars, roVars, libVars>>

\* a merge in which the last version named for an ID wins
mergeRefLastWins(m, ref) ==
    [seen |-> [id \in DOMAIN m \cup {ref.ID} |->
                  IF id = ref.ID THEN ref.Version ELSE m[id]],
     err |-> NoError]

\* a merge that accepts a reference already present with the same version
mergeRefIdempotent(m, ref) ==
    IF ref.ID \in DOMAIN m /\ m[ref.ID] # ref.Version
    THEN [seen |-> m,
          err |-> <<"duplicate policy ID", ref.ID, m[ref.ID], ref.Version>>]
    ELSE [seen |-> [id \in DOMAIN m \cup {ref.ID} |->
                       IF id = ref.ID THEN ref.Version ELSE m[id]],
          err |-> NoError]

\* a merge that reports every ID already present as a duplicate reference
mergeRefVersionBlind(m, ref) ==
    IF ref.ID \notin DOMAIN m
    THEN [seen |-> [id \in DOMAIN m \cup {ref.ID} |->
                        IF id = ref.ID THEN ref.Version ELSE m[id]],
          err |-> NoError]
    ELSE [seen |-> m,
          err |-> <<"duplicate policy reference detected", ref.ID, m[ref.ID]>>]

\* a merge that silently keeps the version already present for an ID
mergeRefFirstWins(m, ref) ==
    IF ref.ID \notin DOMAIN m
    THEN [seen |-> [id \in DOMAIN m \cup {ref.ID} |->
                        IF id = ref.ID THEN ref.Version ELSE m[id]],
          err |-> NoError]
    ELSE [seen |-> m, err |-> NoError]

\* one iteration of the loop over results, on the reference ref
mergeRef(m, ref) ==
    IF ref.ID \notin DOMAIN m
    THEN [seen |-> [id \in DOMAIN m \cup {ref.ID} |->
                        IF id = ref.ID THEN ref.Version ELSE m[id]],
          err |-> NoError]
    ELSE IF m[ref.ID] = ref.Version
    THEN [seen |-> m,
          err |-> <<"duplicate policy reference detected", ref.ID, m[ref.ID]>>]
    ELSE [seen |-> m,
          err |-> <<"duplicate policy ID", ref.ID, m[ref.ID], ref.Version>>]

\* the loop over results: it returns at the first reference whose ID is present
RECURSIVE mergeRefs(_, _)
mergeRefs(m, refs) ==
    IF refs = <<>> THEN [seen |-> m, err |-> NoError]
    ELSE LET one == mergeRef(m, Head(refs)) IN
         IF one.err # NoError THEN one ELSE mergeRefs(one.seen, Tail(refs))

\* resolver task: mu.Lock(); defer mu.Unlock(); the loop over results
ResolverMerge(t) ==
    /\ dmPc = "resolve"
    /\ resPc[t] = "merge"
    /\ LET r == mergeRefs(seen, resOut[t].refs) IN
        /\ seen' = r.seen
        /\ resErr' = firstError(resErr, r.err)
        /\ resPc' = [resPc EXCEPT ![t] = IF r.err = NoError THEN "ok" ELSE "err"]
    /\ UNCHANGED <<dmPc, ctxCancelled, dmReq, processors, resOut, policyRefs,
                   providerCalls, evaluatorCalls, dmErr, dmResp>>
    /\ UNCHANGED <<retrieveErr, evaluateErr>>
    /\ UNCHANGED resPlan
    /\ UNCHANGED <<pepVars, roVars, libVars>>

seenRefsDropped(m) == {}

\* the map's values as the slice resolve returns (its order is Go's map order)
seenRefs(m) == {PolicyIdReference(id, m[id]) : id \in DOMAIN m}

\* g.Wait() in resolve, then MakeDecision's checks of resolve's result
ResolveWait ==
    /\ dmPc = "resolve"
    /\ groupDone(resPc)
    /\ IF resErr # NoError
       THEN /\ dmResp' = ResolveFailed(dmReq, resErr)
            /\ dmPc' = "done"
            /\ UNCHANGED policyRefs
       ELSE /\ policyRefs' = seenRefs(seen)
            /\ IF seenRefs(seen) = {}
               THEN /\ dmResp' = ErrorResponse(dmReq, NotApplicable, StatusPolicyNotFound,
                                    <<"No applicable policies found for the request">>, {})
                    /\ dmPc' = "done"
               ELSE /\ dmPc' = "retrieve"
                    /\ UNCHANGED dmResp
    /\ UNCHANGED <<ctxCancelled, dmReq, processors, resPc, resOut, seen, resErr,
                   providerCalls, evaluatorCalls, dmErr>>
    /\ UNCHANGED <<retrieveErr, evaluateErr>>
    /\ UNCHANGED resPlan
    /\ UNCHANGED <<pepVars, roVars, libVars>>

\* policies, err := d.getPolicies(ctx, policyRefs)
GetPolicies ==
    /\ dmPc = "retrieve"
    /\ providerCalls' = providerCalls + 1
    /\ \/ /\ dmPc' = "evaluate"
          /\ UNCHANGED <<dmResp, retrieveErr>>
       \/ /\ retrieveErr' = <<"failed to retrieve policies">>
          /\ dmResp' = ErrorResponse(dmReq, Indeterminate, StatusProcessingError,
                            Wrap("Failed to retrieve policies", retrieveErr'),
                            policyRefs)
          /\ dmPc' = "done"
    /\ UNCHANGED <<ctxCancelled, dmReq, processors, resPc, resOut, seen, resErr,
                   policyRefs, evaluatorCalls, evaluateErr, dmErr>>
    /\ UNCHANGED resPlan
    /\ UNCHANGED <<pepVars, roVars, libVars>>

\* result, err := d.evaluator.Evaluate(ctx, req, policies), then the response
Evaluate ==
    /\ dmPc = "evaluate"
    /\ evaluatorCalls' = evaluatorCalls + 1
    /\ dmPc' = "done"
    /\ \/ /\ \E res \in EvaluationResults :
                dmResp' = FinalResponse(dmReq, res, policyRefs)
          /\ UNCHANGED evaluateErr
       \/ /\ evaluateErr' = <<"evaluation failed">>
          /\ dmResp' = ErrorResponse(dmReq, Indeterminate, StatusEvaluationError,
                           Wrap("Policy evaluation failed", evaluateErr'),
                           policyRefs)
    /\ UNCHANGED <<ctxCancelled, dmReq, processors, resPc, resOut, seen, resErr,
                   policyRefs, providerCalls, retrieveErr, dmErr>>
    /\ UNCHANGED resPlan
    /\ UNCHANGED <<pepVars, roVars, libVars>>

(***************************************************************************)
(* Route trie (examples/abac/pkg/trie)                                     *)
(***************************************************************************)
WildcardSegment == "*"

\* the zero value of the value type T
ZeroValue == "zero"
ZeroNode == [Value |-> ZeroValue, IsEnd |-> FALSE]

\* New: a root node with no children; a node is named by the segments that
\* lead to it from the root
New == (<<>> :> ZeroNode)

Prefixes(paths) == {SubSeq(paths, 1, k) : k \in 0..Len(paths)}

\* Insert's loop: walk along paths, creating the nodes that are missing
InsertWalk(n, paths) ==
    [q \in DOMAIN n \cup Prefixes(paths) |-> IF q \in DOMAIN n THEN n[q] ELSE ZeroNode]

\* an Insert that overwrites the value of a path already present
InsertOverwriting(n, paths, value) ==
    [trie |-> [InsertWalk(n, paths) EXCEPT ![paths] = [Value |-> value, IsEnd |-> TRUE]],
     err |-> IF InsertWalk(n, paths)[paths].IsEnd
             THEN <<"paths already exists">> ELSE NoError]

\* Insert: the walk, the duplicate check, then the value is stored
Insert(n, paths, value) ==
    LET walked == InsertWalk(n, paths) IN
    IF walked[paths].IsEnd
    THEN [trie |-> walked, err |-> <<"paths already exists">>]
    ELSE [trie |-> [walked EXCEPT ![paths] = [Value |-> value, IsEnd |-> TRUE]],
          err |-> NoError]

\* what Search returns: a node and a nil error, or nil and an error
Found(node) == [found |-> TRUE, node |-> node, err |-> NoError]
NotFound(err) == [found |-> FALSE, node |-> <<>>, err |-> err]

\* a walk that tries the wildcard child before the exact one
RECURSIVE SearchFromWildcardFirst(_, _, _)
SearchFromWildcardFirst(n, currentNode, path) ==
    IF path = <<>>
    THEN IF n[currentNode].IsEnd THEN Found(currentNode)
         ELSE NotFound(<<"paths not found">>)
    ELSE IF Append(currentNode, WildcardSegment) \in DOMAIN n
    THEN SearchFromWildcardFirst(n, Append(currentNode, WildcardSegment), Tail(path))
    ELSE IF Append(currentNode, Head(path)) \in DOMAIN n
    THEN SearchFromWildcardFirst(n, Append(currentNode, Head(path)), Tail(path))
    ELSE NotFound(<<"no route found for key", Head(path)>>)

\* a walk that does not verify that the node reached is an end node
RECURSIVE SearchFromIgnoringIsEnd(_, _, _)
SearchFromIgnoringIsEnd(n, currentNode, path) ==
    IF path = <<>>
    THEN Found(currentNode)
    ELSE IF Append(currentNode, Head(path)) \in DOMAIN n
    THEN SearchFromIgnoringIsEnd(n, Append(currentNode, Head(path)), Tail(path))
    ELSE IF Append(currentNode, WildcardSegment) \in DOMAIN n
    THEN SearchFromIgnoringIsEnd(n, Append(currentNode, WildcardSegment), Tail(path))
    ELSE NotFound(<<"no route found for key", Head(path)>>)

\* Search's loop from currentNode over the segments left, then the IsEnd check
RECURSIVE SearchFrom(_, _, _)
SearchFrom(n, currentNode, path) ==
    IF path = <<>>
    THEN IF n[currentNode].IsEnd THEN Found(currentNode)
         ELSE NotFound(<<"paths not found">>)
    ELSE IF Append(currentNode, Head(path)) \in DOMAIN n
    THEN SearchFrom(n, Append(currentNode, Head(path)), Tail(path))
    ELSE IF Append(currentNode, WildcardSegment) \in DOMAIN n
    THEN SearchFrom(n, Append(currentNode, WildcardSegment), Tail(path))
    ELSE NotFound(<<"no route found for key", Head(path)>>)

Search(n, path) == SearchFrom(n, <<>>, path)

\* the patterns callers insert and the paths they search
InsertPaths ==
    {<<"api", "v1", "status">>,
     <<"api", WildcardSegment, "status">>,
     <<"api", "v1", WildcardSegment>>,
     <<"api", WildcardSegment, WildcardSegment>>,
     <<"api", "v1">>}
SearchPaths ==
    {<<"api", "v1", "status">>,
     <<"api", "v2", "status">>,
     <<"api", "v2", "users">>,
     <<"api", "v1", "users">>,
     <<"api", "v1">>,
     <<"api">>}
TrieValues == {"a", "b"}

NoSearch == [path |-> <<"none">>, found |-> FALSE, node |-> <<>>, err |-> NoError]

InitTrie ==
    /\ trie = New
    /\ trieLog = <<>>
    /\ trieLast = NoSearch

IdleTrie == InitTrie

\* a caller inserts a value at a path
TrieInsert ==
    /\ Len(trieLog) < MaxInserts
    /\ \E paths \in InsertPaths : \E value \in TrieValues :
        LET r == Insert(trie, paths, value) IN
        /\ trie' = r.trie
        /\ trieLog' = Append(trieLog, [paths |-> paths, value |-> value,
                                       err |-> r.err, before |-> trie])
    /\ trieLast' = NoSearch
    /\ UNCHANGED <<pepVars, roVars, dmVars, regVars, prpVars, polVars, rbacVars>>

\* a caller searches a path
TrieSearch ==
    /\ \E path \in SearchPaths :
        LET r == Search(trie, path) IN
        trieLast' = [path |-> path, found |-> r.found, node |-> r.node, err |-> r.err]
    /\ UNCHANGED <<trie, trieLog>>
    /\ UNCHANGED <<pepVars, roVars, dmVars, regVars, prpVars, polVars, rbacVars>>

NextTrie ==
    \/ TrieInsert
    \/ TrieSearch

(***************************************************************************)
(* Operation extractor registration (enforcer/request_extractor.go)        *)
(***************************************************************************)
\* A path string is written as a sequence of "/" and names, names never
\* adjacent: "/api/v1/status" is <<"/", "api", "/", "v1", "/", "status">>.
Slash == "/"
EmptyString == <<>>

RECURSIVE TrimLeft(_)
TrimLeft(str) ==
    IF str # <<>> /\ Head(str) = Slash THEN TrimLeft(Tail(str)) ELSE str

RECURSIVE TrimRight(_)
TrimRight(str) ==
    IF str # <<>> /\ str[Len(str)] = Slash
    THEN TrimRight(SubSeq(str, 1, Len(str) - 1)) ELSE str

\* strings.Trim(path, "/")
Trim(str) == TrimRight(TrimLeft(str))

\* the text between two separators: a name, or the empty string
Piece(str) == IF str = <<>> THEN "" ELSE str[1]

\* strings.Split(str, "/"): always at least one piece
RECURSIVE Split(_)
Split(str) ==
    IF \E i \in 1..Len(str) : str[i] = Slash
    THEN LET i == CHOOSE i \in 1..Len(str) :
                     str[i] = Slash /\ \A j \in 1..(i - 1) : str[j] # Slash
         IN <<Piece(SubSeq(str, 1, i - 1))>> \o Split(SubSeq(str, i + 1, Len(str)))
    ELSE <<Piece(str)>>

parsePathSegments(path) ==
    LET pathSegments == Split(Trim(path)) IN
    IF Len(pathSegments) = 1 /\ pathSegments[1] = "" THEN <<>> ELSE pathSegments

\* strings.ToUpper on the method names in use
normalizeMethod(method) ==
    CASE method = "get" -> "GET"
      [] method = "post" -> "POST"
      [] OTHER -> method

\* an OperationExtractor value, told from the others by a number; 0 is nil
OperationExtractor(n) == [id |-> n]
NilExtractor == OperationExtractor(0)

\* registerOperationExtractor: Search for the node, Insert when Search fails,
\* otherwise add the method to the map of the node Search returned
registerOperationExtractor(rt, path, method, extractor) ==
    LET pathSegments == parsePathSegments(path)
        normalizedMethod == normalizeMethod(method)
        r == Search(rt, pathSegments)
    IN  IF r.err # NoError
        THEN Insert(rt, pathSegments, (normalizedMethod :> extractor))
        ELSE IF normalizedMethod \in DOMAIN rt[r.node].Value
        THEN [trie |-> rt,
              err |-> <<"method already registered for path", method, path>>]
        ELSE [trie |-> [rt EXCEPT ![r.node].Value =
                                      (normalizedMethod :> extractor) @@ @],
              err |-> NoError]

\* the option built by WithOperationExtractor, applied to the extractor
WithOperationExtractor(rt, path, method, extractor) ==
    IF path = EmptyString
    THEN [trie |-> rt, err |-> <<"path cannot be empty">>]
    ELSE IF method = ""
    THEN [trie |-> rt, err |-> <<"method cannot be empty">>]
    ELSE IF extractor = NilExtractor
    THEN [trie |-> rt, err |-> <<"operation extractor cannot be nil">>]
    ELSE registerOperationExtractor(rt, path, method, extractor)

RegistrationPaths ==
    {<<Slash, "api", Slash, "v1", Slash, "status">>,
     <<Slash, "api", Slash, WildcardSegment, Slash, "status">>,
     <<"api", Slash, "v1", Slash, "status", Slash>>,
     <<Slash, "orders">>,
     <<Slash>>,
     EmptyString}
RegistrationMethods == {"GET", "get", "POST", ""}

\* the requests served once the extractor is built
RequestPaths ==
    {<<Slash, "api", Slash, "v1", Slash, "status">>,
     <<Slash, "api", Slash, "v2", Slash, "status">>,
     <<Slash, "orders">>,
     <<Slash>>}
RequestMethods == {"GET", "POST"}

NoSelection == [path |-> EmptyString, method |-> "", extractor |-> NilExtractor,
                err |-> NoError]

\* extractOperation up to the choice of the extractor: Search on the path's
\* segments, then the node's map at the normalised method
extractOperation(rt, path, method) ==
    LET r == Search(rt, parsePathSegments(path)) IN
    IF r.err # NoError
    THEN [extractor |-> NilExtractor,
          err |-> Wrap("no operation extractor found for path", r.err)]
    ELSE IF normalizeMethod(method) \notin DOMAIN rt[r.node].Value
    THEN [extractor |-> NilExtractor,
          err |-> <<"no operation extractor found for method", normalizeMethod(method)>>]
    ELSE [extractor |-> rt[r.node].Value[normalizeMethod(method)], err |-> NoError]

InitReg ==
    /\ routes = New
    /\ regLog = <<>>
    /\ selLast = NoSelection

IdleReg == InitReg

\* NewRequestExtractor applies the next option, which carries an extractor of
\* its own; the first failing option ends the construction
ApplyOption ==
    /\ Len(regLog) < MaxRegistrations
    /\ \A i \in 1..Len(regLog) : regLog[i].err = NoError
    /\ selLast = NoSelection
    /\ \E path \in RegistrationPaths : \E method \in RegistrationMethods :
        LET extractor == OperationExtractor(Len(regLog) + 1)
            r == WithOperationExtractor(routes, path, method, extractor) IN
        /\ routes' = r.trie
        /\ regLog' = Append(regLog, [path |-> path, method |-> method, err |-> r.err])
    /\ UNCHANGED selLast
    /\ UNCHANGED <<pepVars, roVars, dmVars, trieVars, prpVars, polVars, rbacVars>>

\* a request arrives at the extractor NewRequestExtractor returned
ExtractOperation ==
    /\ \A i \in 1..Len(regLog) : regLog[i].err = NoError
    /\ \E path \in RequestPaths : \E method \in RequestMethods :
        LET r == extractOperation(routes, path, method) IN
        selLast' = [path |-> path, method |-> method, extractor |-> r.extractor,
                    err |-> r.err]
    /\ UNCHANGED <<routes, regLog>>
    /\ UNCHANGED <<pepVars, roVars, dmVars, trieVars, prpVars, polVars, rbacVars>>

NextExtractor ==
    \/ ApplyOption
    \/ ExtractOperation

(***************************************************************************)
(* File-backed policy provider (abac/policyprovider/filestore)             *)
(***************************************************************************)
PolicyVersion == "v1"
PolicyFiles == {"default.rego", "rbac.rego"}
RequestedPolicyIDs == PolicyFiles \cup {"missing.rego"}

GetPolicyRequest(id) == [ID |-> id, Version |-> PolicyVersion]

\* a context that is never seen as done
ctxNeverDone(ctx) == FALSE

\* case <-ctx.Done()
ctxDone(ctx) == ctx # "live"

\* ctx.Err()
ctxErr(ctx) ==
    IF ctx = "canceled" THEN <<"context canceled">>
    ELSE IF ctx = "deadline" THEN <<"context deadline exceeded">>
    ELSE NoError

\* getPolicy: the file under basePath/version/id, or an error
getPolicy(req) ==
    IF req.ID \in PolicyFiles
    THEN [policy |-> [ID |-> req.ID, Version |-> req.Version], err |-> NoError]
    ELSE [policy |-> [ID |-> "", Version |-> ""], err |-> <<"policy not found">>]

NoPolicies == [isNil |-> TRUE, policies |-> <<>>, err |-> NoError]

InitPrp ==
    /\ prpPc = "idle"
    /\ prpCtx = "live"
    /\ prpReqs \in BoundedSeq({GetPolicyRequest(id) : id \in RequestedPolicyIDs},
                              MaxPolicyRequests)
    /\ prpIdx = 1
    /\ prpPolicies = <<>>
    /\ prpOut = NoPolicies
    /\ prpLog = <<>>

IdlePrp ==
    /\ prpPc = "done"
    /\ prpCtx = "live"
    /\ prpReqs = <<>>
    /\ prpIdx = 1
    /\ prpPolicies = <<>>
    /\ prpOut = NoPolicies
    /\ prpLog = <<>>

\* the caller's context is cancelled, or its deadline passes
PrpCancel ==
    /\ prpPc # "done"
    /\ prpCtx = "live"
    /\ prpCtx' \in {"canceled", "deadline"}
    /\ UNCHANGED <<prpPc, prpReqs, prpIdx, prpPolicies, prpOut, prpLog>>
    /\ UNCHANGED <<pepVars, roVars, dmVars, trieVars, regVars, polVars, rbacVars>>

\* GetPolicies is entered: the result slice is made and the loop reached
PrpGetPolicies ==
    /\ prpPc = "idle"
    /\ IF prpReqs = <<>>
       THEN /\ prpPc' = "done"
            /\ prpOut' = [isNil |-> FALSE, policies |-> <<>>, err |-> NoError]
       ELSE /\ prpPc' = "check"
            /\ UNCHANGED prpOut
    /\ UNCHANGED <<prpCtx, prpReqs, prpIdx, prpPolicies, prpLog>>
    /\ UNCHANGED <<pepVars, roVars, dmVars, trieVars, regVars, polVars, rbacVars>>

\* the select of one iteration
PrpCheckCtx ==
    /\ prpPc = "check"
    /\ prpLog' = Append(prpLog, <<"check", prpIdx, prpCtx>>)
    /\ IF ctxDone(prpCtx)
       THEN /\ prpPc' = "done"
            /\ prpOut' = [isNil |-> TRUE, policies |-> <<>>, err |-> ctxErr(prpCtx)]
       ELSE /\ prpPc' = "load"
            /\ UNCHANGED prpOut
    /\ UNCHANGED <<prpCtx, prpReqs, prpIdx, prpPolicies>>
    /\ UNCHANGED <<pepVars, roVars, dmVars, trieVars, regVars, polVars, rbacVars>>

\* the default branch: getPolicy, then the append or the error return; after
\* the last request the policies are returned
PrpLoad ==
    /\ prpPc = "load"
    /\ prpLog' = Append(prpLog, <<"load", prpIdx, prpCtx>>)
    /\ LET r == getPolicy(prpReqs[prpIdx]) IN
       IF r.err # NoError
       THEN /\ prpPc' = "done"
            /\ prpOut' = [isNil |-> TRUE, policies |-> <<>>,
                          err |-> Wrap("failed to get policy", r.err)]
            /\ UNCHANGED <<prpIdx, prpPolicies>>
       ELSE /\ prpPolicies' = Append(prpPolicies, r.policy)
            /\ prpIdx' = prpIdx + 1
            /\ IF prpIdx = Len(prpReqs)
               THEN /\ prpPc' = "done"
                    /\ prpOut' = [isNil |-> FALSE,
                                  policies |-> Append(prpPolicies, r.policy),
                                  err |-> NoError]
               ELSE /\ prpPc' = "check"
                    /\ UNCHANGED prpOut
    /\ UNCHANGED <<prpCtx, prpReqs>>
    /\ UNCHANGED <<pepVars, roVars, dmVars, trieVars, regVars, polVars, rbacVars>>

NextPolicyProvider ==
    \/ PrpCancel
    \/ PrpGetPolicies
    \/ PrpCheckCtx
    \/ PrpLoad

(***************************************************************************)
(* The example's policies from request to HTTP response: the default and   *)
(* RBAC resolvers, the Rego modules, the OPA evaluator's conversion, the   *)
(* response conversions and the enforcer's registered handlers             *)
(***************************************************************************)
DefaultPolicyKey == "default.rego"
RBACPolicyKey == "rbac.rego"
DecisionCacheHintHeaderName == "X-ABAC-Decision-TTL"

\* a map[string]any: nil, or its entries
NilAttributes == [isNil |-> TRUE, entries |-> [k \in {} |-> ""]]
AttributesOf(entries) == [isNil |-> FALSE, entries |-> entries]

\* the subject attributes the requests carry; JSON values are named by text
SubjectAttributes ==
    <<NilAttributes,
      AttributesOf([k \in {} |-> ""]),
      AttributesOf([roles |-> "null"]),
      AttributesOf([roles |-> "[]"]),
      AttributesOf([roles |-> "[admin]"]),
      AttributesOf([department |-> "sales"]),
      AttributesOf([department |-> "sales", roles |-> "[customer]"])>>

NoRefs == [isNil |-> TRUE, refs |-> <<>>, err |-> NoError]
RefsOf(refs) == [isNil |-> FALSE, refs |-> refs, err |-> NoError]
RefsError(err) == [isNil |-> TRUE, refs |-> <<>>, err |-> err]

\* defaultResolver.Resolve
defaultResolve(req) ==
    IF req.isNil THEN RefsError(<<"decision request cannot be nil">>)
    ELSE RefsOf(<<PolicyIdReference(DefaultPolicyKey, PolicyVersion)>>)

\* an RBAC resolver that looks at the value of roles
rbacResolveByValue(req) ==
    IF req.isNil THEN RefsError(<<"decision request cannot be nil">>)
    ELSE IF req.attributes.isNil THEN RefsOf(<<>>)
    ELSE IF "roles" \notin DOMAIN req.attributes.entries THEN RefsOf(<<>>)
    ELSE IF req.attributes.entries["roles"] \in {"null", "[]"} THEN RefsOf(<<>>)
    ELSE RefsOf(<<PolicyIdReference(RBACPolicyKey, PolicyVersion)>>)

\* rbacResolver.Resolve
rbacResolve(req) ==
    IF req.isNil THEN RefsError(<<"decision request cannot be nil">>)
    ELSE IF req.attributes.isNil THEN RefsOf(<<>>)
    ELSE IF "roles" \notin DOMAIN req.attributes.entries THEN RefsOf(<<>>)
    ELSE RefsOf(<<PolicyIdReference(RBACPolicyKey, PolicyVersion)>>)

\* a Rego value: undefined, or a JSON object given by its keys
Undefined == [undefined |-> TRUE]
IsDefined(v) == "undefined" \notin DOMAIN v

\* package abac.subject: the object of the result rule
SubjectPermit ==
    [decision |-> Permit,
     status |-> [code |-> "OK"],
     advices |-> <<[id |-> "cache_hint", attributes |-> [ttl_seconds |-> 30]]>>,
     obligations |-> <<[id |-> "audit_logging",
                        attributes |-> [level |-> "INFO", message |-> "permit"]]>>]

\* package abac.subject: result is defined when the module is loaded and the
\* input holds an applicable permission for one of the subject's roles
subjectResult(loaded, applicable) ==
    IF loaded /\ applicable THEN SubjectPermit ELSE Undefined

ModuleResult(d) == [decision |-> d, status |-> [code |-> "OK"]]

\* what a module data.abac.resource yields, when one is deployed at all
ResourceResults ==
    <<Undefined, ModuleResult(Permit), ModuleResult(Deny),
      ModuleResult(NotApplicable), ModuleResult(Indeterminate)>>

\* package abac: default result
DefaultResult ==
    [decision |-> NotApplicable,
     status |-> [code |-> "PolicyNotFound",
                 message |-> "no applicable policy was found for this request"]]

IsPermit(v) == IsDefined(v) /\ v.decision = Permit
IsNotPermit(v) == IsDefined(v) /\ v.decision # Permit

\* a combiner that permits as soon as one module permits
combinePermitOverrides(subject, resource) ==
    IF IsPermit(subject) THEN [value |-> subject, err |-> NoError]
    ELSE IF IsPermit(resource) THEN [value |-> resource, err |-> NoError]
    ELSE IF IsDefined(subject) THEN [value |-> subject, err |-> NoError]
    ELSE IF IsDefined(resource) THEN [value |-> resource, err |-> NoError]
    ELSE [value |-> DefaultResult, err |-> NoError]

\* package abac: the five result rules, each naming the module whose result it
\* yields when its body holds; a complete rule with two different values is an
\* evaluation error, with none it takes the default
combine(subject, resource) ==
    LET rules ==
            (IF IsPermit(subject) /\ IsPermit(resource) THEN {"subject"} ELSE {})
            \cup (IF ~IsDefined(resource) /\ IsDefined(subject) THEN {"subject"} ELSE {})
            \cup (IF IsNotPermit(subject) THEN {"subject"} ELSE {})
            \cup (IF ~IsDefined(subject) /\ IsDefined(resource) THEN {"resource"} ELSE {})
            \cup (IF IsPermit(subject) /\ IsNotPermit(resource) THEN {"resource"} ELSE {})
    IN  IF rules = {} THEN [value |-> DefaultResult, err |-> NoError]
        ELSE IF rules = {"subject"} THEN [value |-> subject, err |-> NoError]
        ELSE IF rules = {"resource"} THEN [value |-> resource, err |-> NoError]
        ELSE [value |-> Undefined, err |-> <<"policy evaluation failed">>]

\* json.Unmarshal into a struct: a field takes the value under its tag, or
\* keeps its zero value when the object has no such key
JsonField(obj, tag, zero) == IF tag \in DOMAIN obj THEN obj[tag] ELSE zero

\* convertResult: the Rego value marshalled, then unmarshalled into
\* EvaluationResult by the tags decision, status, obligations, advice
convertResult(value) ==
    IF JsonField(value, "decision", Permit) \notin Decisions
    THEN [res |-> [Decision |-> "", StatusCode |-> "", Obligations |-> <<>>,
                   Advice |-> <<>>],
          err |-> <<"failed to unmarshal evaluation result">>]
    ELSE [res |-> [Decision |-> JsonField(value, "decision", ""),
                   StatusCode |-> JsonField(JsonField(value, "status", [code |-> ""]),
                                            "code", ""),
                   Obligations |-> JsonField(value, "obligations", <<>>),
                   Advice |-> JsonField(value, "advice", <<>>)],
          err |-> NoError]

\* strconv.Itoa for a positive number: its decimal digits
Digits == <<"0", "1", "2", "3", "4", "5", "6", "7", "8", "9">>
RECURSIVE Itoa(_)
Itoa(n) ==
    IF n < 10 THEN <<Digits[n + 1]>>
    ELSE Itoa(n \div 10) \o <<Digits[(n % 10) + 1]>>

NoHeader == <<>>

\* CacheHintAdviceHandler.Handle: the header value it sets, or the error
cacheHintHandle(advice) ==
    IF "ttl_seconds" \notin DOMAIN advice.attributes
    THEN [header |-> NoHeader, err |-> <<"cache_hint advice missing 'ttl_seconds' attribute">>]
    ELSE IF advice.attributes["ttl_seconds"] <= 0
    THEN [header |-> NoHeader, err |-> <<"cache_hint 'ttl_seconds' must be > 0">>]
    ELSE [header |-> Itoa(advice.attributes["ttl_seconds"]), err |-> NoError]

\* the handlers main registers with the enforcer
RegisteredObligationHandlers == {"audit_logging"}
RegisteredAdviceHandlers == {"cache_hint"}

\* AuditLogHandler.Handle succeeds when level and message are both present
auditLogHandle(obligation) ==
    IF "level" \in DOMAIN obligation.attributes
       /\ "message" \in DOMAIN obligation.attributes
    THEN NoError ELSE <<"invalid audit log attributes">>

\* handleObligations: the first obligation without a handler, or whose handler
\* fails, is the error
handleObligations(obligations) ==
    IF \E i \in 1..Len(obligations) :
            \/ obligations[i].id \notin RegisteredObligationHandlers
            \/ auditLogHandle(obligations[i]) # NoError
    THEN <<"obligation failed">> ELSE NoError

\* handleAdvice: advice without a handler is skipped; the header is what the
\* handlers that ran before the first failure have set
RECURSIVE handleAdvice(_, _)
handleAdvice(advices, header) ==
    IF advices = <<>> THEN header
    ELSE IF Head(advices).id \notin RegisteredAdviceHandlers
    THEN handleAdvice(Tail(advices), header)
    ELSE LET r == cacheHintHandle(Head(advices)) IN
         IF r.err # NoError THEN header
         ELSE handleAdvice(Tail(advices), r.header)

\* the enforcer's switch on the decision: the status written and the
\* X-ABAC-Decision-TTL header of the response
serveDecision(resp) ==
    IF resp.Decision = Permit
    THEN IF handleObligations(resp.Obligations) # NoError
         THEN [status |-> StatusInternalServerError, header |-> NoHeader]
         ELSE [status |-> StatusOK200, header |-> handleAdvice(resp.Advices, NoHeader)]
    ELSE IF resp.Decision = Deny
    THEN [status |-> StatusForbidden, header |-> handleAdvice(resp.Advices, NoHeader)]
    ELSE IF resp.Decision = NotApplicable
    THEN [status |-> StatusForbidden, header |-> NoHeader]
    ELSE [status |-> StatusInternalServerError, header |-> NoHeader]

PolicyRequest(isNil, attributes) ==
    [isNil |-> isNil, RequestID |-> "r1", attributes |-> attributes]

NoValue == [subject |-> Undefined, resource |-> Undefined, result |-> Undefined,
            err |-> NoError]
NoEvaluation ==
    [res |-> [Decision |-> "", StatusCode |-> "", Obligations |-> <<>>, Advice |-> <<>>],
     err |-> NoError]
NoHttp == [status |-> 0, header |-> NoHeader]
NoResolution == [default |-> NoRefs, rbac |-> NoRefs]

InitPol ==
    /\ polPc = "resolve"
    /\ \E i \in DOMAIN SubjectAttributes : \E isNil \in BOOLEAN :
        polReq = PolicyRequest(isNil, IF isNil THEN NilAttributes
                                      ELSE SubjectAttributes[i])
    /\ \E applicable \in BOOLEAN : \E j \in DOMAIN ResourceResults :
        polInput = [applicable |-> applicable, resource |-> ResourceResults[j]]
    /\ polRefs = NoResolution
    /\ polValue = NoValue
    /\ polEval = NoEvaluation
    /\ polResp = NoAccessResponse
    /\ polHttp = NoHttp

IdlePol ==
    /\ polPc = "done"
    /\ polReq = PolicyRequest(TRUE, NilAttributes)
    /\ polInput = [applicable |-> FALSE, resource |-> Undefined]
    /\ polRefs = NoResolution
    /\ polValue = NoValue
    /\ polEval = NoEvaluation
    /\ polResp = NoAccessResponse
    /\ polHttp = NoHttp

\* the two resolvers main registers are run on the request
PolResolve ==
    /\ polPc = "resolve"
    /\ polRefs' = [default |-> defaultResolve(polReq), rbac |-> rbacResolve(polReq)]
    /\ IF polReq.isNil
       THEN /\ polPc' = "done"
            /\ polHttp' = [status |-> StatusInternalServerError, header |-> NoHeader]
       ELSE /\ polPc' = "evaluate"
            /\ UNCHANGED polHttp
    /\ UNCHANGED <<polReq, polInput, polValue, polEval, polResp>>
    /\ UNCHANGED <<pepVars, roVars, dmVars, trieVars, regVars, prpVars, rbacVars>>

\* the evaluator runs data.abac.result over the modules resolved and converts
\* the value
PolEvaluate ==
    /\ polPc = "evaluate"
    /\ LET subject == subjectResult(polRefs.rbac.refs # <<>>, polInput.applicable)
           r == combine(subject, polInput.resource)
       IN  /\ polValue' = [subject |-> subject, resource |-> polInput.resource,
                           result |-> r.value, err |-> r.err]
           /\ IF r.err # NoError
              THEN /\ polEval' = [NoEvaluation EXCEPT !.err = r.err]
                   /\ polPc' = "done"
                   /\ polHttp' = [status |-> StatusInternalServerError,
                                  header |-> NoHeader]
              ELSE /\ polEval' = convertResult(r.value)
                   /\ IF convertResult(r.value).err # NoError
                      THEN /\ polPc' = "done"
                           /\ polHttp' = [status |-> StatusInternalServerError,
                                          header |-> NoHeader]
                      ELSE /\ polPc' = "respond"
                           /\ UNCHANGED polHttp
    /\ UNCHANGED <<polReq, polInput, polRefs, polResp>>
    /\ UNCHANGED <<pepVars, roVars, dmVars, trieVars, regVars, prpVars, rbacVars>>

\* MakeDecision builds the final response and the orchestrator converts it
PolRespond ==
    /\ polPc = "respond"
    /\ polResp' = toAccessResponse(
                      FinalResponse(polReq, polEval.res,
                                    {polRefs.default.refs[i] : i \in DOMAIN polRefs.default.refs}
                                    \cup {polRefs.rbac.refs[i] : i \in DOMAIN polRefs.rbac.refs}))
    /\ polPc' = "serve"
    /\ UNCHANGED <<polReq, polInput, polRefs, polValue, polEval, polHttp>>
    /\ UNCHANGED <<pepVars, roVars, dmVars, trieVars, regVars, prpVars, rbacVars>>

\* the enforcer acts on the access response
PolServe ==
    /\ polPc = "serve"
    /\ polHttp' = serveDecision(polResp)
    /\ polPc' = "done"
    /\ UNCHANGED <<polReq, polInput, polRefs, polValue, polEval, polResp>>
    /\ UNCHANGED <<pepVars, roVars, dmVars, trieVars, regVars, prpVars, rbacVars>>

NextPolicy ==
    \/ PolResolve
    \/ PolEvaluate
    \/ PolRespond
    \/ PolServe

(***************************************************************************)
(* RBAC of the example: the Postgres user repository, the RBAC analyser,   *)
(* the RBAC info provider over the role store, the RBAC resolver and the   *)
(* subject policy of rbac.rego                                             *)
(***************************************************************************)
InfoTypeRBAC == "rbac"

\* a text is the sequence of its pieces: spaces and words
Space == " "
Text(word) == <<word>>

RECURSIVE TrimSpaceLeft(_)
TrimSpaceLeft(str) ==
    IF str # <<>> /\ Head(str) = Space THEN TrimSpaceLeft(Tail(str)) ELSE str

RECURSIVE TrimSpaceRight(_)
TrimSpaceRight(str) ==
    IF str # <<>> /\ str[Len(str)] = Space
    THEN TrimSpaceRight(SubSeq(str, 1, Len(str) - 1)) ELSE str

\* strings.TrimSpace
TrimSpace(str) == TrimSpaceRight(TrimSpaceLeft(str))

\* what a Go any holds: the untyped nil, or a []string
UntypedNil == [kind |-> "nil", elems |-> <<>>]
StringSlice(elems) == [kind |-> "[]string", elems |-> elems]

\* users.attributes->'roles' of a row: its jsonb type and its texts
JsonRoles(type, elems) == [type |-> type, elems |-> elems]

\* the rows the users table can hold for the subject
UserRoles ==
    {JsonRoles("absent", <<>>),
     JsonRoles("null", <<>>),
     JsonRoles("number", <<>>),
     JsonRoles("string", <<Text("admin")>>),
     JsonRoles("string", <<<<Space>>>>),
     JsonRoles("array", <<>>),
     JsonRoles("array", <<<<>>>>),
     JsonRoles("array", <<<<Space>>, <<>>>>),
     JsonRoles("array", <<Text("admin")>>),
     JsonRoles("array", <<Text("customer")>>),
     JsonRoles("array", <<<<Space, "customer", Space>>>>),
     JsonRoles("array", <<<<Space>>, Text("auditor")>>),
     JsonRoles("array", <<Text("ghost")>>),
     JsonRoles("array", <<Text("customer"), Text("auditor")>>)}

\* the roles column of the query: the CASE over jsonb_typeof
rolesColumn(json) ==
    IF json.type = "array" THEN json.elems
    ELSE IF json.type = "string" THEN json.elems
    ELSE <<>>

\* a repository that hands the decoded JSON attributes on as they are
GetUserAttributesByIDKeepingJson(user) ==
    IF ~user.up THEN [attrs |-> NilAttributes, err |-> <<"query attributes">>]
    ELSE IF ~user.found THEN [attrs |-> NilAttributes, err |-> <<"user not found">>]
    ELSE [attrs |-> IF user.roles.type = "absent" THEN AttributesOf([k \in {} |-> UntypedNil])
                    ELSE IF user.roles.type \in {"array", "string"}
                    THEN AttributesOf([roles |-> StringSlice(rolesColumn(user.roles))])
                    ELSE AttributesOf([roles |-> UntypedNil]),
          err |-> NoError]

\* UserRepository.GetUserAttributesByID: roles is overridden by the column
GetUserAttributesByID(user) ==
    IF ~user.up THEN [attrs |-> NilAttributes, err |-> <<"query attributes">>]
    ELSE IF ~user.found THEN [attrs |-> NilAttributes, err |-> <<"user not found">>]
    ELSE [attrs |-> AttributesOf([roles |-> StringSlice(rolesColumn(user.roles))]),
          err |-> NoError]

\* attrs["roles"] of a Go map: the untyped nil for a nil map or a missing key
RolesOf(attrs) ==
    IF attrs.isNil \/ "roles" \notin DOMAIN attrs.entries THEN UntypedNil
    ELSE attrs.entries["roles"]

\* an analyser that asks for nothing when the subject has no role names
rbacAnalyseSkippingEmpty(attrs) ==
    IF attrs.isNil \/ RolesOf(attrs) = UntypedNil \/ RolesOf(attrs).elems = <<>>
    THEN <<>>
    ELSE <<[InfoType |-> InfoTypeRBAC, Params |-> RolesOf(attrs)]>>

\* rbacAnalyser.AnalyseInfoRequirements on a non-nil request
rbacAnalyse(attrs) ==
    IF attrs.isNil \/ RolesOf(attrs) = UntypedNil THEN <<>>
    ELSE <<[InfoType |-> InfoTypeRBAC, Params |-> RolesOf(attrs)]>>

\* the role store: roles, role_hierarchy, role_permissions and
\* role_permission_conditions
StoredRoles == {"admin", "customer_service", "customer", "auditor"}
RoleChildren ==
    [r \in StoredRoles |->
        IF r = "admin" THEN {"customer_service"}
        ELSE IF r = "customer_service" THEN {"customer"}
        ELSE {}]

PermissionCondition(key, operator, value) ==
    [attribute_key |-> key, operator |-> operator, attribute_value |-> value]
Permission(action, resource, conditions) ==
    [action |-> action, resource |-> resource, conditions |-> conditions]

OwnerIsSubject == PermissionCondition("owner", "equals", "${subject.id}")
RegionIsEU == PermissionCondition("region", "equals", "eu")

RolePermissions ==
    [r \in StoredRoles |->
        IF r = "admin"
        THEN <<Permission("create", "order", <<>>), Permission("read", "order", <<>>)>>
        ELSE IF r = "customer_service"
        THEN <<Permission("read", "order", <<>>)>>
        ELSE IF r = "customer"
        THEN <<Permission("create", "order", <<OwnerIsSubject>>),
               Permission("read", "order", <<OwnerIsSubject>>)>>
        ELSE <<Permission("read", "order", <<OwnerIsSubject, RegionIsEU>>)>>]

RECURSIVE Closure(_)
Closure(roles) ==
    LET more == roles \cup UNION {RoleChildren[r] : r \in roles}
    IN  IF more = roles THEN roles ELSE Closure(more)

\* RBACRepository.GetRoleDescendants: the stored roots and all below them
GetRoleDescendants(rootRoles) ==
    Closure({rootRoles[i][1] : i \in DOMAIN rootRoles} \cap StoredRoles)

\* RBACRepository.GetPermissionsByRoles
GetPermissionsByRoles(roles) == [r \in roles |-> RolePermissions[r]]

NoInfo == [isNil |-> TRUE, entries |-> [k \in {} |-> <<>>]]
InfoOf(entries) == [isNil |-> FALSE, entries |-> entries]

\* the role names that are not blank, trimmed
RECURSIVE Normalized(_)
Normalized(roleNames) ==
    IF roleNames = <<>> THEN <<>>
    ELSE IF TrimSpace(Head(roleNames)) # <<>>
    THEN <<TrimSpace(Head(roleNames))>> \o Normalized(Tail(roleNames))
    ELSE Normalized(Tail(roleNames))

\* roleBasedAccessProvider.handle
handle(roleNames, up) ==
    LET normalized == Normalized(roleNames)
        descendants == GetRoleDescendants(normalized)
    IN  IF normalized = <<>>
        THEN [info |-> NoInfo, err |-> <<"at least one role name must be provided">>]
        ELSE IF ~up
        THEN [info |-> NoInfo, err |-> <<"failed to get role descendants">>]
        ELSE IF descendants = {}
        THEN [info |-> NoInfo, err |-> <<"none of the requested roles were found">>]
        ELSE [info |-> InfoOf([role_hierarchy |->
                                   [requested_roles |-> normalized,
                                    descendants |-> descendants],
                               role_permissions |->
                                   GetPermissionsByRoles(descendants)]),
              err |-> NoError]

\* roleBasedAccessProvider.GetInfo
rbacGetInfo(req, up) ==
    IF req.Params.kind = "[]string" THEN handle(req.Params.elems, up)
    ELSE [info |-> NoInfo, err |-> <<"role names parameter must be a []string">>]

\* getAdditionalInfo for the requests of the one analyser main registers
getAdditionalInfo(reqs, up) ==
    IF reqs = <<>> THEN [info |-> InfoOf([k \in {} |-> <<>>]), err |-> NoError]
    ELSE LET resp == rbacGetInfo(reqs[1], up) IN
         IF resp.err # NoError
         THEN [info |-> InfoOf([k \in {} |-> <<>>]),
               err |-> Wrap("failed to get info", resp.err)]
         ELSE resp

\* the input document of the evaluation
AccessContext(req, attrs, env) ==
    [subject |-> [id |-> req.subject, type |-> "user"],
     action |-> [id |-> req.action],
     resource |-> [id |-> "o1", type |-> req.resourceType,
                   attributes |-> req.resourceAttributes],
     environment |-> env.entries]

\* the dotted path of a ${...} reference, none for a literal
ReferencePath(attribute_value) ==
    IF attribute_value = "${subject.id}" THEN <<"subject", "id">> ELSE <<>>

\* object.get with a path
RECURSIVE ObjectGet(_, _, _)
ObjectGet(object, path, default) ==
    IF path = <<>> THEN object
    ELSE IF Head(path) \in DOMAIN object
    THEN ObjectGet(object[Head(path)], Tail(path), default)
    ELSE default

resolve_condition_attribute_value(attribute_value, access_context) ==
    IF ReferencePath(attribute_value) # <<>>
    THEN ObjectGet(access_context, ReferencePath(attribute_value), "")
    ELSE attribute_value

apply_operator(operator, actual_value, expected_value) ==
    operator = "equals" /\ actual_value = expected_value

is_condition_satisfied(condition, access_context) ==
    /\ condition.attribute_key \in DOMAIN access_context.resource.attributes
    /\ apply_operator(condition.operator,
                      access_context.resource.attributes[condition.attribute_key],
                      resolve_condition_attribute_value(condition.attribute_value,
                                                        access_context))

\* the two bodies of the rule: no conditions, or some condition satisfied
all_conditions_satisfied(conditions, access_context) ==
    \/ Len(conditions) = 0
    \/ \E i \in DOMAIN conditions : is_condition_satisfied(conditions[i], access_context)

is_permission_applicable(permission, access_context) ==
    /\ permission.action = access_context.action.id
    /\ permission.resource = access_context.resource.type
    /\ all_conditions_satisfied(permission.conditions, access_context)

\* the (role, permission) pairs that satisfy the body of abac.subject.result
ApplicablePermissions(access_context) ==
    IF {"role_hierarchy", "role_permissions"} \subseteq DOMAIN access_context.environment
    THEN LET env == access_context.environment IN
         UNION {{<<role, i>> : i \in {j \in DOMAIN env.role_permissions[role] :
                                    is_permission_applicable(
                                        env.role_permissions[role][j], access_context)}} :
                role \in env.role_hierarchy.descendants \cap DOMAIN env.role_permissions}
    ELSE {}

\* the subject's row and whether the users and the RBAC tables can be queried
UserRow(found, usersUp, rbacUp, roles) ==
    [found |-> found, up |-> usersUp, rbacUp |-> rbacUp, roles |-> roles]

\* the resource attributes the order provider returns
OrderAttributes ==
    {[owner |-> o] : o \in {"u1", "u2"}}
    \cup {[owner |-> o, region |-> r] : o \in {"u1", "u2"}, r \in {"eu", "us"}}

RbacRequest(action, attributes) ==
    [subject |-> "u1", action |-> action, resourceType |-> "order",
     resourceAttributes |-> attributes]

NoRbacHttp == [resp |-> NoAccessResponse, status |-> 0]

InitRbac ==
    /\ rbacPc = "enrich"
    /\ \E found \in BOOLEAN, usersUp \in BOOLEAN, rbacUp \in BOOLEAN, roles \in UserRoles :
        rbacUser = UserRow(found, usersUp, rbacUp, roles)
    /\ \E action \in {"read", "delete"}, attributes \in OrderAttributes :
        rbacReq = RbacRequest(action, attributes)
    /\ rbacSubject = NilAttributes
    /\ rbacInfoReqs = <<>>
    /\ rbacEnv = NoInfo
    /\ rbacRefs = NoRefs
    /\ rbacApplicable = {}
    /\ rbacErr = NoError
    /\ rbacHttp = NoRbacHttp

IdleRbac ==
    /\ rbacPc = "done"
    /\ rbacUser = UserRow(FALSE, FALSE, FALSE, JsonRoles("absent", <<>>))
    /\ rbacReq = RbacRequest("read", [owner |-> "u1"])
    /\ rbacSubject = NilAttributes
    /\ rbacInfoReqs = <<>>
    /\ rbacEnv = NoInfo
    /\ rbacRefs = NoRefs
    /\ rbacApplicable = {}
    /\ rbacErr = NoError
    /\ rbacHttp = NoRbacHttp

\* enrichAccessRequest: the user provider answers with the repository's
\* attributes, the order provider with the order's
RbacEnrich ==
    /\ rbacPc = "enrich"
    /\ LET r == GetUserAttributesByID(rbacUser) IN
       IF r.err # NoError
       THEN /\ rbacErr' = Wrap("failed to enrich request", r.err)
            /\ rbacPc' = "serve"
            /\ UNCHANGED rbacSubject
       ELSE /\ rbacSubject' = r.attrs
            /\ rbacPc' = "analyse"
            /\ UNCHANGED rbacErr
    /\ UNCHANGED <<rbacUser, rbacReq, rbacInfoReqs, rbacEnv, rbacRefs,
                   rbacApplicable, rbacHttp>>
    /\ UNCHANGED <<pepVars, roVars, dmVars, trieVars, regVars, prpVars, polVars>>

\* AnalyseInfoRequirements with the RBAC analyser
RbacAnalyse ==
    /\ rbacPc = "analyse"
    /\ rbacInfoReqs' = rbacAnalyse(rbacSubject)
    /\ rbacPc' = "getinfo"
    /\ UNCHANGED <<rbacUser, rbacReq, rbacSubject, rbacEnv, rbacRefs,
                   rbacApplicable, rbacErr, rbacHttp>>
    /\ UNCHANGED <<pepVars, roVars, dmVars, trieVars, regVars, prpVars, polVars>>

\* getAdditionalInfo, and createDecisionRequest with what it returned
RbacGetAdditionalInfo ==
    /\ rbacPc = "getinfo"
    /\ LET r == getAdditionalInfo(rbacInfoReqs, rbacUser.rbacUp) IN
       IF r.err # NoError
       THEN /\ rbacErr' = Wrap("failed to get additional info", r.err)
            /\ rbacPc' = "serve"
            /\ UNCHANGED rbacEnv
       ELSE /\ rbacEnv' = r.info
            /\ rbacPc' = "decide"
            /\ UNCHANGED rbacErr
    /\ UNCHANGED <<rbacUser, rbacReq, rbacSubject, rbacInfoReqs, rbacRefs,
                   rbacApplicable, rbacHttp>>
    /\ UNCHANGED <<pepVars, roVars, dmVars, trieVars, regVars, prpVars, polVars>>

\* MakeDecision: the resolvers, the evaluation of data.abac.result over the
\* modules resolved, the response
RbacMakeDecision ==
    /\ rbacPc = "decide"
    /\ LET req == PolicyRequest(FALSE, rbacSubject)
           refs == rbacResolve(req)
           ctx == AccessContext(rbacReq, rbacSubject, rbacEnv)
           applicable == IF refs.refs # <<>> THEN ApplicablePermissions(ctx) ELSE {}
           subject == subjectResult(refs.refs # <<>>, applicable # {})
           r == combine(subject, Undefined)
           res == IF r.err # NoError \/ convertResult(r.value).err # NoError
                  THEN [NoEvaluation.res EXCEPT !.Decision = Indeterminate]
                  ELSE convertResult(r.value).res
       IN  /\ rbacRefs' = refs
           /\ rbacApplicable' = applicable
           /\ rbacHttp' = [resp |-> toAccessResponse(
                                        FinalResponse(req, res,
                                            {defaultResolve(req).refs[1]}
                                            \cup {refs.refs[i] : i \in DOMAIN refs.refs})),
                           status |-> 0]
    /\ rbacPc' = "serve"
    /\ UNCHANGED <<rbacUser, rbacReq, rbacSubject, rbacInfoReqs, rbacEnv, rbacErr>>
    /\ UNCHANGED <<pepVars, roVars, dmVars, trieVars, regVars, prpVars, polVars>>

\* the enforcer: 500 for an error of EvaluateAccess, else the switch
RbacServe ==
    /\ rbacPc = "serve"
    /\ rbacHttp' = [rbacHttp EXCEPT !.status =
                        IF rbacErr # NoError THEN StatusInternalServerError
                        ELSE serveDecision(rbacHttp.resp).status]
    /\ rbacPc' = "done"
    /\ UNCHANGED <<rbacUser, rbacReq, rbacSubject, rbacInfoReqs, rbacEnv, rbacRefs,
                   rbacApplicable, rbacErr>>
    /\ UNCHANGED <<pepVars, roVars, dmVars, trieVars, regVars, prpVars, polVars>>

NextRbac ==
    \/ RbacEnrich
    \/ RbacAnalyse
    \/ RbacGetAdditionalInfo
    \/ RbacMakeDecision
    \/ RbacServe

IdleLib == IdleTrie /\ IdleReg /\ IdlePrp /\ IdlePol /\ IdleRbac

(***************************************************************************)
(* Specifications, one per component                                       *)
(***************************************************************************)
InitEnforcer == InitPep /\ IdleRo /\ IdleDm /\ IdleLib
InitOrchestrator == IdlePep /\ InitRo /\ IdleDm /\ IdleLib
\* EvaluateAccess has enriched the request, found nothing more to fetch, built
\* the DecisionRequest and is inside its MakeDecision call
RoDeciding ==
    /\ roPc = "deciding"
    /\ enrichPc = [t \in EnrichTasks |-> "ok"]
    /\ enrichErr = NoError
    /\ enriched = [t \in EnrichTasks |-> MapOf({})]
    /\ analyserIdx = MaxAnalysers + 1
    /\ infoReqs = <<>>
    /\ addPc = <<>>
    /\ addResp = <<>>
    /\ addErr = NoError
    /\ addMu = 0
    /\ result = {}
    /\ pdpCalls = 1
    /\ roErr = NoError
    /\ roResp = NoAccessResponse

\* EvaluateAccess receives what MakeDecision returned: the error is wrapped,
\* the response converted by toAccessResponse
DecideReturn ==
    /\ roPc = "deciding"
    /\ dmPc = "done"
    /\ roPc' = "done"
    /\ IF dmErr # NoError
       THEN /\ roErr' = Wrap("failed to make decision", dmErr)
            /\ UNCHANGED roResp
       ELSE /\ roResp' = toAccessResponse(dmResp)
            /\ UNCHANGED roErr
    /\ UNCHANGED <<enrichPc, enrichErr, enriched, analyserIdx, infoReqs, addPc,
                   addResp, addErr, addMu, result, pdpCalls>>
    /\ UNCHANGED <<pepVars, dmVars, libVars>>

\* the decision maker is called with a nil request by a direct caller, and with
\* the request of createDecisionRequest by the orchestrator
InitDecisionMaker ==
    /\ IdlePep
    /\ InitDm
    /\ IF dmReq.isNil THEN IdleRo ELSE RoDeciding
    /\ IdleLib

\* resolvers that are functions of the request: what each returns is fixed
\* before MakeDecision is called
PlannedOutputs ==
    {ResolveError,
     Resolved(<<>>),
     Resolved(<<PolicyIdReference("p", "v1")>>),
     Resolved(<<PolicyIdReference("p", "v2")>>),
     Resolved(<<PolicyIdReference("q", "v1")>>),
     Resolved(<<PolicyIdReference("p", "v1"), PolicyIdReference("q", "v1")>>)}

InitDmPlanned ==
    /\ dmPc = "call"
    /\ ctxCancelled \in BOOLEAN
    /\ dmReq = DecisionRequest("uuid-1")
    /\ processors \in 1..MaxResolvers
    /\ resPlan \in [1..processors -> PlannedOutputs]
    /\ resPc = <<>>
    /\ resOut = <<>>
    /\ seen = EmptySeen
    /\ resErr = NoError
    /\ policyRefs = {}
    /\ providerCalls = 0
    /\ evaluatorCalls = 0
    /\ retrieveErr = NoError
    /\ evaluateErr = NoError
    /\ dmErr = NoError
    /\ dmResp = NoDecisionResponse

InitResolversFixed == IdlePep /\ InitDmPlanned /\ RoDeciding /\ IdleLib

IdleApp == IdlePep /\ IdleRo /\ IdleDm
InitTrieSpec == IdleApp /\ InitTrie /\ IdleReg /\ IdlePrp /\ IdlePol /\ IdleRbac
InitExtractor == IdleApp /\ IdleTrie /\ InitReg /\ IdlePrp /\ IdlePol /\ IdleRbac
InitPolicyProvider == IdleApp /\ IdleTrie /\ IdleReg /\ InitPrp /\ IdlePol /\ IdleRbac
InitPolicy == IdleApp /\ IdleTrie /\ IdleReg /\ IdlePrp /\ InitPol /\ IdleRbac
InitRbacSpec == IdleApp /\ IdleTrie /\ IdleReg /\ IdlePrp /\ IdlePol /\ InitRbac

NextDecisionMaker ==
    \/ CancelCtx
    \/ MakeDecisionCall
    \/ \E t \in DOMAIN resPc : ResolverCheckCtx(t)
    \/ \E t \in DOMAIN resPc : ResolverResolve(t)
    \/ \E t \in DOMAIN resPc : ResolverMerge(t)
    \/ ResolveWait
    \/ GetPolicies
    \/ Evaluate
    \/ DecideReturn

SpecEnforcer == InitEnforcer /\ [][NextEnforcer]_vars
SpecOrchestrator == InitOrchestrator /\ [][NextOrchestrator]_vars
SpecDecisionMaker == InitDecisionMaker /\ [][NextDecisionMaker]_vars
SpecResolversFixed == InitResolversFixed /\ [][NextDecisionMaker]_vars
SpecTrie == InitTrieSpec /\ [][NextTrie]_vars
SpecExtractor == InitExtractor /\ [][NextExtractor]_vars
SpecPolicyProvider == InitPolicyProvider /\ [][NextPolicyProvider]_vars
SpecPolicy == InitPolicy /\ [][NextPolicy]_vars
SpecRbac == InitRbacSpec /\ [][NextRbac]_vars

\* the orchestrator's tasks are goroutines and its phases one goroutine: a step
\* that can be taken is eventually taken
SpecOrchestratorFair == SpecOrchestrator /\ WF_vars(NextOrchestrator)

(***************************************************************************)
(* Claims about the Enforcer                                               *)
(***************************************************************************)
LogHas(e) == \E k \in 1..Len(pepLog) : pepLog[k] = e
Decided == accessResp # NoResponse

\* obligation i of the response cannot be fulfilled: no handler is registered
\* for its ID, or its handler returned an error
ObligationFails(i) ==
    \/ accessResp.Obligations[i] \notin obligationHandlers
    \/ LogHas(<<"obligation_end", i, "error">>)

\* C1: on Permit, if some obligation of the response has no registered handler
\* or its handler returned an error, the downstream handler is not (and is not
\* about to be) invoked, and the request ends in 500 "obligation_failed".
C1_ObligationFailureBlocksPermit ==
    (/\ Decided
     /\ accessResp.Decision = Permit
     /\ \E i \in 1..Len(accessResp.Obligations) : ObligationFails(i))
    => /\ ~LogHas(<<"next">>)
       /\ pepPc # "next"
       /\ pepPc = "done" =>
            /\ httpStatus = StatusInternalServerError
            /\ httpError = "obligation_failed"

\* a Permit whose first obligation was handled and whose second has no handler
C1_Witness ==
    /\ pepPc = "done"
    /\ accessResp.Decision = Permit
    /\ Len(accessResp.Obligations) = 2
    /\ LogHas(<<"obligation_end", 1, "ok">>)
    /\ accessResp.Obligations[2] \notin obligationHandlers
    /\ httpError = "obligation_failed"

\* C2: the downstream handler is invoked only on Permit; Deny and NotApplicable
\* end in 403 "access_denied", Indeterminate in 500 "indeterminate_decision",
\* without the downstream handler.
C2_OnlyPermitReachesDownstream ==
    /\ (LogHas(<<"next">>) \/ pepPc = "next") => accessResp.Decision = Permit
    /\ (pepPc = "done" /\ Decided /\ accessResp.Decision \in {Deny, NotApplicable}) =>
            /\ httpStatus = StatusForbidden
            /\ httpError = "access_denied"
            /\ ~LogHas(<<"next">>)
    /\ (pepPc = "done" /\ Decided /\ accessResp.Decision = Indeterminate) =>
            /\ httpStatus = StatusInternalServerError
            /\ httpError = "indeterminate_decision"
            /\ ~LogHas(<<"next">>)

\* a Deny with an obligation and an advice, answered 403
C2_Witness ==
    /\ pepPc = "done"
    /\ accessResp.Decision = Deny
    /\ Len(accessResp.Obligations) > 0
    /\ Len(accessResp.Advices) > 0
    /\ httpStatus = StatusForbidden

ObligationEvents(log) ==
    SelectSeq(log, LAMBDA e : e[1] \in {"obligation_start", "obligation_end"})

\* the handler calls are start 1, end 1, start 2, end 2, ...
OneAtATimeInListedOrder(ev) ==
    \A k \in 1..Len(ev) :
        /\ ev[k][1] = (IF k % 2 = 1 THEN "obligation_start" ELSE "obligation_end")
        /\ ev[k][2] = (k + 1) \div 2

\* C3: on Permit the obligation handlers are called one at a time in the order
\* of the response's obligations, each returning before the next is called, and
\* all of them have returned when the downstream handler is invoked.
C3_ObligationsInOrderBeforeDownstream ==
    (Decided /\ accessResp.Decision = Permit) =>
        /\ OneAtATimeInListedOrder(ObligationEvents(pepLog))
        /\ pepPc = "next" =>
              Len(ObligationEvents(pepLog)) = 2 * Len(accessResp.Obligations)
        /\ \A k \in 1..Len(pepLog) : pepLog[k] = <<"next">> =>
              Len(ObligationEvents(SubSeq(pepLog, 1, k - 1)))
                  = 2 * Len(accessResp.Obligations)

\* a Permit with two obligations that reached the downstream handler
C3_Witness ==
    /\ pepPc = "done"
    /\ accessResp.Decision = Permit
    /\ Len(accessResp.Obligations) >= 2
    /\ LogHas(<<"next">>)

(***************************************************************************)
(* Claims about the request orchestrator                                   *)
(***************************************************************************)
\* C4: a task of the additional-info fan-out holds the mutex only while it
\* merges, and has released it when it has returned, with or without an error.
C4_MutexReleasedWhenTaskReturns ==
    \A t \in DOMAIN addPc : addMu = t => addPc[t] = "merge"

\* task t's GetInfo call returned an error (a task that returns an error from
\* the merge holds a non-empty Info map)
GetInfoFailed(t) == addPc[t] = "err" /\ addResp[t] = {}

\* every secondary GetInfo call has returned an Info map, and two of the maps
\* share a key
InfoMapsCollide ==
    /\ roPc \in {"fetch", "done"}
    /\ DOMAIN addPc # {}
    /\ \A t \in DOMAIN addPc : addPc[t] # "getinfo" /\ ~GetInfoFailed(t)
    /\ \E t1, t2 \in DOMAIN addPc : t1 # t2 /\ addResp[t1] \cap addResp[t2] # {}

DuplicateInfoError ==
    /\ Len(roErr) = 3
    /\ roErr[1] = "failed to get additional info"
    /\ roErr[2] = "duplicate info for"
    /\ roErr[3] \in InfoKeys

\* C5: if the Info maps returned by the secondary GetInfo calls share a key,
\* EvaluateAccess returns "failed to get additional info: duplicate info for
\* <key>" with no response and without invoking the PDP.
C5_CollisionReturnsDuplicateError ==
    InfoMapsCollide ~>
        (/\ roPc = "done"
         /\ DuplicateInfoError
         /\ roResp = NoAccessResponse
         /\ pdpCalls = 0)

\* C6: the phases run in the order enrich, analyse, fetch, decide: analysis and
\* the secondary fetches start only after both enrichment tasks returned nil,
\* the fetches only after the analyser loop, and the PDP is invoked only after
\* every secondary task returned nil.
C6_PhasesInOrder ==
    /\ (analyserIdx >= 1 \/ DOMAIN addPc # {} \/ pdpCalls > 0 \/ roPc = "decide") =>
            \A t \in EnrichTasks : enrichPc[t] = "ok"
    /\ DOMAIN addPc # {} => analyserIdx > MaxAnalysers
    /\ (pdpCalls > 0 \/ roPc = "decide") =>
            /\ analyserIdx > MaxAnalysers
            /\ \A t \in DOMAIN addPc : addPc[t] = "ok"

\* the PDP was invoked after two secondary fetches
C6_Witness ==
    /\ roPc = "done"
    /\ pdpCalls = 1
    /\ Len(infoReqs) >= 2
    /\ roErr = NoError

(***************************************************************************)
(* Claims about the decision maker                                         *)
(***************************************************************************)
Contains(msg, part) == \E i \in 1..Len(msg) : msg[i] = part

\* every reference some resolver returned
ReturnedRefs == {r \in Refs : \E t \in DOMAIN resOut :
                    \E i \in 1..Len(resOut[t].refs) : resOut[t].refs[i] = r}

RECURSIVE ReturnedCount(_)
ReturnedCount(t) == IF t = 0 THEN 0 ELSE Len(resOut[t].refs) + ReturnedCount(t - 1)

\* resolve returned a list: processors are configured and no task failed
ResolutionSucceeded ==
    /\ dmPc \in {"retrieve", "evaluate", "done"}
    /\ ~dmReq.isNil
    /\ processors > 0
    /\ resErr = NoError

\* C7: MakeDecision returns an error and no response exactly when the request
\* is nil; for a non-nil request it returns a response and a nil error.
C7_ErrorIffNilRequest ==
    dmPc = "done" =>
        IF dmReq.isNil
        THEN dmErr # NoError /\ dmResp = NoDecisionResponse
        ELSE dmErr = NoError /\ dmResp # NoDecisionResponse

\* a non-nil request whose resolver failed is answered with a response
C7_Witness ==
    /\ dmPc = "done"
    /\ ~dmReq.isNil
    /\ resErr = <<"resolver failed">>
    /\ dmResp.Decision = Indeterminate

C9_ResolvedIsUnionOnePerID ==
    ResolutionSucceeded =>
        /\ policyRefs = ReturnedRefs
        /\ \A r1, r2 \in policyRefs : r1.ID = r2.ID => r1 = r2
        /\ Cardinality(policyRefs) = ReturnedCount(processors)

\* two resolvers each contributed a reference
C9_Witness ==
    /\ ResolutionSucceeded
    /\ processors >= 2
    /\ \A t \in DOMAIN resOut : Len(resOut[t].refs) >= 1
    /\ Cardinality(policyRefs) >= 2

\* two resolvers returned the same ID with the same version
SameReferenceTwice ==
    \E t1, t2 \in DOMAIN resOut : t1 # t2 /\
        \E i \in 1..Len(resOut[t1].refs) : \E j \in 1..Len(resOut[t2].refs) :
            resOut[t1].refs[i] = resOut[t2].refs[j]

\* some policy ID was returned with two different versions
VersionConflict ==
    \E r1, r2 \in ReturnedRefs : r1.ID = r2.ID /\ r1.Version # r2.Version

\* C10 as stated: if two resolvers return the same ID with the same version the
\* decision is Indeterminate / ProcessingError with a message containing
\* "duplicate policy reference detected".
C10_DuplicateReferenceMessage ==
    (dmPc = "done" /\ SameReferenceTwice) =>
        /\ dmResp.Decision = Indeterminate
        /\ dmResp.StatusCode = StatusProcessingError
        /\ Contains(dmResp.Message, "duplicate policy reference detected")

\* C10 amended: if two resolvers return the same ID with the same version the
\* decision is Indeterminate / ProcessingError; the message contains "duplicate
\* policy reference detected" when every resolver returned a list and no policy
\* ID was returned with two different versions.
C10_DuplicateReferenceIndeterminate ==
    (dmPc = "done" /\ SameReferenceTwice) =>
        /\ dmResp.Decision = Indeterminate
        /\ dmResp.StatusCode = StatusProcessingError
        /\ ((\A t \in DOMAIN resOut : resOut[t].kind = "refs") /\ ~VersionConflict) =>
              Contains(dmResp.Message, "duplicate policy reference detected")

\* two resolvers both returned p/v1 and nothing else went wrong
C10_Witness ==
    /\ dmPc = "done"
    /\ processors >= 2
    /\ \A t \in DOMAIN resOut : resOut[t] = Resolved(<<PolicyIdReference("p", "v1")>>)
    /\ Contains(dmResp.Message, "duplicate policy reference detected")

\* two resolvers returned the same ID with different versions
VersionConflictAcrossResolvers ==
    \E t1, t2 \in DOMAIN resOut : t1 # t2 /\
        \E i \in 1..Len(resOut[t1].refs) : \E j \in 1..Len(resOut[t2].refs) :
            /\ resOut[t1].refs[i].ID = resOut[t2].refs[j].ID
            /\ resOut[t1].refs[i].Version # resOut[t2].refs[j].Version

\* some reference (ID and version) was returned twice, by one resolver or by two
ReferenceReturnedTwice ==
    \E t1, t2 \in DOMAIN resOut :
        \E i \in 1..Len(resOut[t1].refs) : \E j \in 1..Len(resOut[t2].refs) :
            /\ <<t1, i>> # <<t2, j>>
            /\ resOut[t1].refs[i] = resOut[t2].refs[j]

\* C11 as stated: if two resolvers return the same ID with different versions
\* the decision is Indeterminate / ProcessingError with a message containing
\* "duplicate policy ID".
C11_VersionConflictMessage ==
    (dmPc = "done" /\ VersionConflictAcrossResolvers) =>
        /\ dmResp.Decision = Indeterminate
        /\ dmResp.StatusCode = StatusProcessingError
        /\ Contains(dmResp.Message, "duplicate policy ID")

\* C11 amended: if two resolvers return the same ID with different versions the
\* decision is Indeterminate / ProcessingError; the message contains "duplicate
\* policy ID" when every resolver returned a list and no reference was returned
\* twice with the same version.
C11_VersionConflictIndeterminate ==
    (dmPc = "done" /\ VersionConflictAcrossResolvers) =>
        /\ dmResp.Decision = Indeterminate
        /\ dmResp.StatusCode = StatusProcessingError
        /\ ((\A t \in DOMAIN resOut : resOut[t].kind = "refs")
               /\ ~ReferenceReturnedTwice) =>
              Contains(dmResp.Message, "duplicate policy ID")

\* one resolver returned p/v1, another p/v2, and nothing else went wrong
C11_Witness ==
    /\ dmPc = "done"
    /\ Len(resOut) >= 2
    /\ resOut[1] = Resolved(<<PolicyIdReference("p", "v1")>>)
    /\ resOut[2] = Resolved(<<PolicyIdReference("p", "v2")>>)
    /\ Contains(dmResp.Message, "duplicate policy ID")

\* C12: for a request that passed the nil check, if no resolver is configured
\* or some resolver returned an error, MakeDecision answers Indeterminate with
\* status ProcessingError.
C12_ResolutionFailureIsProcessingError ==
    (/\ dmPc = "done"
     /\ ~dmReq.isNil
     /\ \/ processors = 0
        \/ \E t \in DOMAIN resOut : resOut[t] = ResolveError)
    => /\ dmResp.Decision = Indeterminate
       /\ dmResp.StatusCode = StatusProcessingError

\* one resolver failed while another returned a reference
C12_Witness ==
    /\ dmPc = "done"
    /\ processors >= 2
    /\ \E t \in DOMAIN resOut : resOut[t] = ResolveError
    /\ \E t \in DOMAIN resOut : resOut[t].kind = "refs" /\ Len(resOut[t].refs) >= 1
    /\ dmResp.Decision = Indeterminate

\* C13: when policy retrieval fails the decision is Indeterminate /
\* ProcessingError, when the evaluator fails it is Indeterminate /
\* EvaluationError, and in both cases the response's PolicyIdReferences are the
\* references that were resolved (the union of the resolvers' outputs).
C13_RetrievalAndEvaluationFailures ==
    /\ (dmPc = "done" /\ retrieveErr # NoError) =>
            /\ dmResp.Decision = Indeterminate
            /\ dmResp.StatusCode = StatusProcessingError
            /\ dmResp.PolicyIdReferences = policyRefs
            /\ policyRefs = ReturnedRefs /\ policyRefs # {}
            /\ evaluatorCalls = 0
    /\ (dmPc = "done" /\ evaluateErr # NoError) =>
            /\ dmResp.Decision = Indeterminate
            /\ dmResp.StatusCode = StatusEvaluationError
            /\ dmResp.PolicyIdReferences = policyRefs
            /\ policyRefs = ReturnedRefs /\ policyRefs # {}

\* the evaluator failed on two references resolved by two resolvers
C13_Witness ==
    /\ dmPc = "done"
    /\ evaluateErr # NoError
    /\ processors >= 2
    /\ \A t \in DOMAIN resOut : Len(resOut[t].refs) = 1
    /\ Cardinality(dmResp.PolicyIdReferences) = 2

\* C14: every DecisionResponse MakeDecision returns carries the RequestID of the
\* DecisionRequest it was given, and the AccessResponse EvaluateAccess builds
\* from it carries the same RequestID.
C14_RequestIDCarriedThrough ==
    /\ (dmPc = "done" /\ ~dmReq.isNil) =>
            /\ dmResp # NoDecisionResponse
            /\ dmResp.RequestID = dmReq.RequestID
    /\ (roPc = "done" /\ roErr = NoError) =>
            /\ roResp # NoAccessResponse
            /\ roResp.RequestID = dmReq.RequestID
            /\ roResp.RequestID \in RequestIDs

\* EvaluateAccess returned the evaluator's Permit for the request it created
C14_Witness ==
    /\ roPc = "done"
    /\ roErr = NoError
    /\ evaluatorCalls = 1
    /\ evaluateErr = NoError
    /\ roResp.Decision = Permit
    /\ roResp.RequestID = dmReq.RequestID

\* enrichAccessRequest returned a nil error
EnrichmentSucceeded ==
    /\ roPc \notin {"idle", "enrich"}
    /\ \A t \in EnrichTasks : enrichPc[t] = "ok"

\* C15: whenever enrichment succeeds, Subject.Attributes and
\* Resource.Attributes of the enriched request are non-nil maps.
C15_AttributesNonNilAfterEnrichment ==
    EnrichmentSucceeded => \A t \in EnrichTasks : ~enriched[t].isNil

\* the subject or the resource fetch returned an error
EnrichFetchFailed == \E t \in EnrichTasks : enrichPc[t] = "err"

\* C16: if the subject or the resource fetch fails, no analyser is called, no
\* secondary GetInfo is issued, the PDP is not invoked, and EvaluateAccess
\* returns an error beginning "failed to enrich request" and no response.
C16_EnrichFailureShortCircuits ==
    /\ [](EnrichFetchFailed =>
            /\ analyserIdx = 0
            /\ infoReqs = <<>>
            /\ addPc = <<>>
            /\ pdpCalls = 0
            /\ roResp = NoAccessResponse
            /\ roPc \in {"enrich", "done"}
            /\ roPc = "done" =>
                  /\ Len(roErr) >= 2
                  /\ roErr[1] = "failed to enrich request")
    /\ (EnrichFetchFailed ~> roPc = "done")

\* the resource fetch failed after the subject fetch had succeeded
C16_Witness ==
    /\ roPc = "done"
    /\ enrichPc["subject"] = "ok"
    /\ enrichPc["resource"] = "err"
    /\ roErr = <<"failed to enrich request", "failed to get resource info">>

(***************************************************************************)
(* Further claims about the Enforcer                                       *)
(***************************************************************************)
\* the position in the history of the first event equal to e (0: none)
FirstIndex(e) ==
    IF LogHas(e) THEN CHOOSE k \in 1..Len(pepLog) :
                        pepLog[k] = e /\ \A j \in 1..(k - 1) : pepLog[j] # e
    ELSE 0

\* advice i is reached by handleAdvice: it has a handler and no earlier
\* advice handler returned an error
AdviceReached(i) ==
    /\ accessResp.Advices[i] \in adviceHandlers
    /\ \A j \in 1..(i - 1) : ~LogHas(<<"advice_end", j, "error">>)

\* C17: on Deny the response is 403 "access_denied" whether or not obligation
\* or advice handlers fail, the downstream handler is not invoked, and the
\* advice handlers are run even after an obligation has failed.
C17_DenyStandsAndAdviceStillRuns ==
    (Decided /\ accessResp.Decision = Deny) =>
        /\ ~LogHas(<<"next">>)
        /\ pepPc # "next"
        /\ pepPc = "done" =>
              /\ httpStatus = StatusForbidden
              /\ httpError = "access_denied"
              /\ \A i \in 1..Len(accessResp.Advices) :
                    AdviceReached(i) => LogHas(<<"advice_start", i>>)

\* a Deny whose obligation handler failed and whose advice handler then ran
C17_Witness ==
    /\ pepPc = "done"
    /\ accessResp.Decision = Deny
    /\ LogHas(<<"obligation_end", 1, "error">>)
    /\ LogHas(<<"advice_end", 1, "error">>)
    /\ FirstIndex(<<"obligation_end", 1, "error">>) < FirstIndex(<<"advice_start", 1>>)
    /\ httpStatus = StatusForbidden

\* every obligation of the response was handled without error
ObligationsAllSucceeded ==
    \A i \in 1..Len(accessResp.Obligations) : LogHas(<<"obligation_end", i, "ok">>)

\* C18: on a Permit whose obligations all succeed, an advice handler error or
\* an advice without a handler leaves the HTTP status to the downstream
\* handler: the PEP writes no error response and the downstream handler runs.
C18_AdviceFailureDoesNotBlockPermit ==
    (Decided /\ accessResp.Decision = Permit /\ ObligationsAllSucceeded) =>
        /\ \A k \in 1..Len(pepLog) : pepLog[k][1] # "errorHandler"
        /\ httpError = ""
        /\ pepPc # "done" => httpStatus = 0
        /\ pepPc = "done" => LogHas(<<"next">>) /\ httpStatus = StatusOK200

\* a Permit whose first advice has no handler and whose second advice failed
C18_Witness ==
    /\ pepPc = "done"
    /\ accessResp.Decision = Permit
    /\ Len(accessResp.Obligations) >= 1
    /\ Len(accessResp.Advices) = 2
    /\ accessResp.Advices[1] \notin adviceHandlers
    /\ LogHas(<<"advice_end", 2, "error">>)
    /\ LogHas(<<"next">>)

\* C19: if EvaluateAccess returns an error the PEP responds 500
\* "access_evaluation_failed", runs no obligation or advice handler and does
\* not invoke the downstream handler.
C19_EvaluationErrorIs500 ==
    accessErr # NoError =>
        /\ pepPc = "done"
        /\ httpStatus = StatusInternalServerError
        /\ httpError = "access_evaluation_failed"
        /\ pepLog = <<<<"errorHandler", StatusInternalServerError,
                        "access_evaluation_failed">>>>

\* the orchestrator failed on a key collision while handlers were registered
C19_Witness ==
    /\ pepPc = "done"
    /\ accessErr = Wrap("failed to get additional info",
                        <<"duplicate info for", "role_hierarchy">>)
    /\ obligationHandlers # {}
    /\ adviceHandlers # {}
    /\ httpStatus = StatusInternalServerError

C21_ExtractionFailureIs400 ==
    extractErr # NoError =>
        /\ pepPc = "done"
        /\ httpStatus = StatusBadRequest
        /\ httpError = "request_extraction_failed"
        /\ accessResp = NoResponse
        /\ accessErr = NoError
        /\ pepLog = <<<<"errorHandler", StatusBadRequest,
                        "request_extraction_failed">>>>

\* extraction failed on an Enforcer that has handlers registered
C21_Witness ==
    /\ extractErr # NoError
    /\ obligationHandlers # {}
    /\ adviceHandlers # {}
    /\ httpStatus = StatusBadRequest

\* C30: every EvaluateAccess call whose PIP and PDP calls all return eventually
\* returns, for any number of secondary requests and any interleaving of their
\* tasks, including when responses collide on a key.
C30_EvaluateAccessReturns == <>(roPc = "done")


(***************************************************************************)
(* Claims about the route trie                                             *)
(***************************************************************************)
ExactPattern == <<"api", "v1", "status">>
WildcardPattern == <<"api", WildcardSegment, "status">>

\* the Insert calls that stored a value at paths
InsertedAt(paths) ==
    {i \in 1..Len(trieLog) : trieLog[i].paths = paths /\ trieLog[i].err = NoError}

\* C23: whenever both [api, *, status] and [api, v1, status] have been
\* inserted, in either order and among any other patterns, Search of
\* [api, v1, status] returns without error the node of the exact pattern,
\* holding the value that was inserted for the exact pattern.
C23_ExactPreferredOverWildcard ==
    (/\ trieLast.path = ExactPattern
     /\ InsertedAt(ExactPattern) # {}
     /\ InsertedAt(WildcardPattern) # {})
    => /\ trieLast.found
       /\ trieLast.err = NoError
       /\ trieLast.node = ExactPattern
       /\ \E i \in InsertedAt(ExactPattern) : trie[trieLast.node].Value = trieLog[i].value

C23_Witness ==
    /\ trieLast.path = ExactPattern
    /\ trieLast.found
    /\ \E i \in InsertedAt(WildcardPattern) : \E j \in InsertedAt(ExactPattern) :
        i < j /\ trieLog[i].value # trieLog[j].value

\* the Insert calls made on a path that was a terminal when they were made
DuplicateInserts ==
    {i \in 1..Len(trieLog) :
        /\ trieLog[i].paths \in DOMAIN trieLog[i].before
        /\ trieLog[i].before[trieLog[i].paths].IsEnd}

TrieAfter(i) == IF i = Len(trieLog) THEN trie ELSE trieLog[i + 1].before

\* C25: an Insert of a path that is already a terminal returns an error, and
\* the trie after it is the trie before it: same nodes, same values, same
\* terminals.
C25_DuplicateInsertChangesNothing ==
    \A i \in DuplicateInserts :
        /\ trieLog[i].err # NoError
        /\ TrieAfter(i) = trieLog[i].before

C25_Witness ==
    \E i \in DuplicateInserts :
        /\ trieLog[i].value # trieLog[i].before[trieLog[i].paths].Value
        /\ Cardinality(DOMAIN trieLog[i].before) > 4

\* the walks the statement describes, told from the trie alone: a chain of
\* nodes from the root, each step to the child named by the segment when there
\* is one, else to the "*" child when there is one
IsWalk(n, path, nodes) ==
    /\ Len(nodes) = Len(path)
    /\ \A k \in 1..Len(path) :
        LET from == SubSeq(nodes, 1, k - 1)
        IN  IF Append(from, path[k]) \in DOMAIN n
            THEN nodes[k] = path[k]
            ELSE /\ Append(from, WildcardSegment) \in DOMAIN n
                 /\ nodes[k] = WildcardSegment

WalkSegments == {p[k] : p \in {q \in SearchPaths \cup InsertPaths : Len(q) = 3}, k \in 1..3}
WalksOf(n, path) == {nodes \in [1..Len(path) -> WalkSegments] : IsWalk(n, path, nodes)}

\* C26: Search returns an error, and no node, when at some segment the node
\* reached has neither a child for the segment nor a "*" child, or when the
\* node reached after the last segment is not a terminal; otherwise it returns
\* the node reached and no error.
C26_SearchFailsExactlyWhenWalkFails ==
    trieLast.path # NoSearch.path =>
        LET walks == WalksOf(trie, trieLast.path) IN
        IF walks = {} \/ \A nodes \in walks : ~trie[nodes].IsEnd
        THEN ~trieLast.found /\ trieLast.err # NoError
        ELSE /\ trieLast.found
             /\ trieLast.err = NoError
             /\ trieLast.node \in walks

C26_Witness ==
    /\ trieLast.path = <<"api", "v2", "status">>
    /\ trieLast.found
    /\ trieLast.node = WildcardPattern
    /\ ExactPattern \in DOMAIN trie

(***************************************************************************)
(* Claims about the registration of operation extractors                   *)
(***************************************************************************)
ValidRegistration(i) ==
    regLog[i].path # EmptyString /\ regLog[i].method # ""

SamePathAndMethod(i, j) ==
    /\ parsePathSegments(regLog[i].path) = parsePathSegments(regLog[j].path)
    /\ normalizeMethod(regLog[i].method) = normalizeMethod(regLog[j].method)

\* C24: a registration with a non-empty path and method fails if and only if
\* an earlier registration had the same path (the same segments) and the same
\* method up to case; registrations of different paths, or of different
\* methods on one path, succeed in any order.
C24_RegistrationFailsOnlyOnDuplicate ==
    \A i \in 1..Len(regLog) :
        ValidRegistration(i) =>
            (regLog[i].err # NoError <=>
                \E j \in 1..(i - 1) : ValidRegistration(j) /\ SamePathAndMethod(i, j))

(***************************************************************************)
(* Claims about the file-backed policy provider                            *)
(***************************************************************************)
Loads == {k \in 1..Len(prpLog) : prpLog[k][1] = "load"}
Checks == {k \in 1..Len(prpLog) : prpLog[k][1] = "check"}

\* C27: GetPolicies checks the context before each load: every load directly
\* follows a check of the same request that saw the context live; a check that
\* sees the context cancelled ends the call with the context's error and no
\* policies, so that nothing is loaded after it; and at most the one load that
\* had passed its check when the context was cancelled still runs.
C27_ContextCheckedBeforeEachLoad ==
    /\ \A k \in Loads :
        k > 1 /\ prpLog[k - 1] = <<"check", prpLog[k][2], "live">>
    /\ \A k \in Checks :
        prpLog[k][3] # "live" =>
            /\ k = Len(prpLog)
            /\ prpPc = "done"
            /\ prpOut.isNil
            /\ prpOut.policies = <<>>
            /\ prpOut.err = ctxErr(prpLog[k][3])
            /\ prpOut.err # NoError
    /\ Cardinality({k \in Loads : prpLog[k][3] # "live"}) <= 1

C27_Witness ==
    /\ prpPc = "done"
    /\ Len(prpLog) >= 3
    /\ prpLog[Len(prpLog)][1] = "check"
    /\ prpLog[Len(prpLog)][3] = "canceled"
    /\ prpLog[Len(prpLog)][2] < Len(prpReqs)
    /\ Loads # {}

(***************************************************************************)
(* Claims about the example's policies                                     *)
(***************************************************************************)
RBACReference == <<PolicyIdReference(RBACPolicyKey, PolicyVersion)>>

\* C28: for a request that is not nil the RBAC resolver returns its one
\* reference exactly when the subject attributes hold the key roles, whatever
\* the value under it; otherwise it returns an empty, non-nil list; in both
\* cases without error.
C28_RolesKeyPresenceDecides ==
    (polPc # "resolve" /\ ~polReq.isNil) =>
        /\ polRefs.rbac.err = NoError
        /\ ~polRefs.rbac.isNil
        /\ IF ~polReq.attributes.isNil /\ "roles" \in DOMAIN polReq.attributes.entries
           THEN polRefs.rbac.refs = RBACReference
           ELSE polRefs.rbac.refs = <<>>

C28_Witness ==
    /\ polPc # "resolve"
    /\ ~polReq.isNil
    /\ ~polReq.attributes.isNil
    /\ "roles" \in DOMAIN polReq.attributes.entries
    /\ polReq.attributes.entries["roles"] = "null"
    /\ polRefs.rbac.refs = RBACReference

Evaluated == polPc \in {"respond", "serve"} \/ (polPc = "done" /\ polHttp # NoHttp /\ ~polReq.isNil)

\* C29 as stated: the final decision is Permit if and only if both the
\* subject module and the resource module yield Permit.
C29_PermitIffBothPermit ==
    (Evaluated /\ polValue.err = NoError) =>
        (polValue.result.decision = Permit
            <=> IsPermit(polValue.subject) /\ IsPermit(polValue.resource))

\* C29: the final decision is Permit if and only if at least one of the two
\* modules yields a result and every module that yields a result yields
\* Permit; a module that is not present is deferred from, not counted as a
\* refusal.
C29_PermitIffEveryPresentModulePermits ==
    (Evaluated /\ polValue.err = NoError) =>
        (polValue.result.decision = Permit
            <=> /\ IsDefined(polValue.subject) \/ IsDefined(polValue.resource)
                /\ IsDefined(polValue.subject) => IsPermit(polValue.subject)
                /\ IsDefined(polValue.resource) => IsPermit(polValue.resource))

C29_Witness ==
    /\ Evaluated
    /\ IsPermit(polValue.subject)
    /\ ~IsDefined(polValue.resource)
    /\ polValue.result.decision = Permit

CacheHint30 == [id |-> "cache_hint", attributes |-> [ttl_seconds |-> 30]]

\* C22: when the RBAC subject policy yields Permit and that is the outcome of
\* the evaluation, the AccessResponse's Advices holds the cache_hint advice
\* with ttl_seconds 30 and the HTTP response is 200 with the header
\* X-ABAC-Decision-TTL set to 30.
C22_PermitCarriesCacheHint ==
    (/\ polPc = "done"
     /\ IsPermit(polValue.subject)
     /\ polValue.result = polValue.subject)
    => /\ \E i \in 1..Len(polResp.Advices) : polResp.Advices[i] = CacheHint30
       /\ polHttp.status = StatusOK200
       /\ polHttp.header = <<"3", "0">>

(***************************************************************************)
(* More claims about the Enforcer                                          *)
(***************************************************************************)
Outcomes == {k \in 1..Len(pepLog) : pepLog[k][1] \in {"next", "errorHandler"}}

\* C32: for every AccessResponse the orchestrator returns without error,
\* whatever its Decision value, a request that has completed has seen exactly
\* one call, of the downstream handler or of the error handler, and never
\* neither.
C32_ExactlyOneOutcome ==
    (pepPc = "done" /\ Decided /\ accessErr = NoError) => Cardinality(Outcomes) = 1

\* the positions in the history where a handler returned an error, and those
\* where a handler was invoked
ErrorsOf(endEvent) ==
    {k \in 1..Len(pepLog) : pepLog[k][1] = endEvent /\ pepLog[k][3] = "error"}
StartsOf(startEvent) == {k \in 1..Len(pepLog) : pepLog[k][1] = startEvent}

\* C36: within one response, once an obligation handler has returned an error
\* no obligation handler is invoked any more, and once an advice handler has
\* returned an error no advice handler is invoked any more, whatever the
\* decision.
C36_NoHandlerAfterErrorOfItsKind ==
    /\ \A k \in ErrorsOf("obligation_end") :
            \A l \in StartsOf("obligation_start") : l < k
    /\ \A k \in ErrorsOf("advice_end") :
            \A l \in StartsOf("advice_start") : l < k

\* a Deny with two obligations and two advices, all with handlers, where the
\* first handler of each kind failed
C36_Witness ==
    /\ pepPc = "done"
    /\ accessResp.Decision = Deny
    /\ Len(accessResp.Obligations) = 2
    /\ Len(accessResp.Advices) = 2
    /\ \A i \in 1..2 : accessResp.Obligations[i] \in obligationHandlers
    /\ \A i \in 1..2 : accessResp.Advices[i] \in adviceHandlers
    /\ LogHas(<<"obligation_end", 1, "error">>)
    /\ LogHas(<<"advice_end", 1, "error">>)

(***************************************************************************)
(* More claims about the decision maker                                    *)
(***************************************************************************)
ResolversFinished == \A t \in DOMAIN resPc : resPc[t] \in {"ok", "err"}

\* C34: within MakeDecision the policy retriever is invoked only after every
\* resolver task has finished, none with an error, with a non-empty set of
\* references; the evaluator only after the retriever was invoked and returned
\* no error; and each at most once.
C34_ResolveThenRetrieveThenEvaluate ==
    /\ providerCalls <= 1
    /\ evaluatorCalls <= 1
    /\ providerCalls >= 1 =>
            /\ processors >= 1
            /\ ResolversFinished
            /\ resErr = NoError
            /\ policyRefs # {}
    /\ evaluatorCalls >= 1 =>
            /\ providerCalls = 1
            /\ retrieveErr = NoError

C34_Witness ==
    /\ dmPc = "done"
    /\ processors >= 2
    /\ providerCalls = 1
    /\ evaluatorCalls = 1
    /\ dmResp.Decision = Permit

\* what the fixed outputs determine: resolution fails when a resolver returns
\* an error or a policy ID is returned twice (by one resolver or by two)
PlanFails ==
    \/ \E t \in DOMAIN resPlan : resPlan[t] = ResolveError
    \/ \E t1, t2 \in DOMAIN resPlan :
        \E i \in DOMAIN resPlan[t1].refs : \E j \in DOMAIN resPlan[t2].refs :
            /\ <<t1, i>> # <<t2, j>>
            /\ resPlan[t1].refs[i].ID = resPlan[t2].refs[j].ID

PlanRefs ==
    UNION {{resPlan[t].refs[i] : i \in DOMAIN resPlan[t].refs} : t \in DOMAIN resPlan}

\* C35: with the resolvers' outputs fixed and the context not cancelled, the
\* outcome is a function of those outputs, whatever the order in which the
\* resolver tasks ran: Indeterminate / ProcessingError when an output is an
\* error or two references share an ID, NotApplicable / PolicyNotFound when
\* every output is empty, and otherwise the set of references, resolved and
\* returned, is the union of the outputs (the decision then being the one the
\* evaluator gives for that set).
C35_OutcomeIndependentOfInterleaving ==
    (dmPc = "done" /\ resPlan # <<>> /\ ~ctxCancelled) =>
        IF PlanFails
        THEN /\ dmResp.Decision = Indeterminate
             /\ dmResp.StatusCode = StatusProcessingError
        ELSE IF PlanRefs = {}
        THEN /\ dmResp.Decision = NotApplicable
             /\ dmResp.StatusCode = StatusPolicyNotFound
        ELSE /\ policyRefs = PlanRefs
             /\ dmResp.PolicyIdReferences = PlanRefs
             /\ providerCalls = 1

\* two resolvers name the same policy with different versions, and the second
\* one merged first
C35_Witness ==
    /\ dmPc = "done"
    /\ ~ctxCancelled
    /\ processors = 2
    /\ resPlan = <<Resolved(<<PolicyIdReference("p", "v1")>>),
                   Resolved(<<PolicyIdReference("p", "v2")>>)>>
    /\ "p" \in DOMAIN seen
    /\ seen["p"] = "v2"
    /\ dmResp.Decision = Indeterminate

NoResolveInvoked ==
    \A t \in DOMAIN resPc : resPc[t] # "resolve" /\ resOut[t] = NotResolved

\* C37: when MakeDecision is called on a request with a context that is
\* already cancelled and at least one resolver is configured, no resolver's
\* Resolve is ever invoked and the decision returned is Indeterminate with
\* status ProcessingError.
C37_CancelledContextSkipsResolvers ==
    (dmPc = "call" /\ ctxCancelled /\ processors >= 1 /\ ~dmReq.isNil) =>
        [](/\ NoResolveInvoked
           /\ dmPc = "done" =>
                /\ dmErr = NoError
                /\ dmResp.Decision = Indeterminate
                /\ dmResp.StatusCode = StatusProcessingError)

C37_Witness ==
    /\ dmPc = "done"
    /\ ctxCancelled
    /\ processors >= 2
    /\ \A t \in DOMAIN resPc : resPc[t] = "err" /\ resOut[t] = NotResolved
    /\ dmResp.Decision = Indeterminate
    /\ dmResp.StatusCode = StatusProcessingError
    /\ dmResp.Message = Wrap("Failed to resolve policies", <<"context canceled">>)

(***************************************************************************)
(* More claims about the route trie and the request extractor              *)
(***************************************************************************)
\* pattern matches path segment by segment, "*" matching any one segment
Matches(pattern, path) ==
    /\ Len(pattern) = Len(path)
    /\ \A k \in 1..Len(path) : pattern[k] = path[k] \/ pattern[k] = WildcardSegment

InsertedPatterns == {q \in DOMAIN trie : trie[q].IsEnd}

\* C33: Search succeeds for every path that at least one inserted pattern
\* matches segment by segment.
C33_SearchFindsEveryMatchedPath ==
    (/\ trieLast.path # NoSearch.path
     /\ \E pattern \in InsertedPatterns : Matches(pattern, trieLast.path))
    => trieLast.found

\* C31: the extractor registered by the i-th option for pattern P and method
\* M is selected only for requests whose method is M (up to case) and whose
\* path P matches segment by segment, whatever else was registered.
C31_ExtractorSelectedOnlyForItsRoute ==
    \A i \in 1..Len(regLog) :
        (selLast.err = NoError /\ selLast.extractor = OperationExtractor(i)) =>
            /\ normalizeMethod(regLog[i].method) = normalizeMethod(selLast.method)
            /\ Matches(parsePathSegments(regLog[i].path),
                       parsePathSegments(selLast.path))


(***************************************************************************)
(* Claims about RBAC in the example                                        *)
(***************************************************************************)
\* the subject's roles attribute is present, and none of its names is non-blank
RolesPresentAndBlank ==
    /\ ~rbacSubject.isNil
    /\ "roles" \in DOMAIN rbacSubject.entries
    /\ RolesOf(rbacSubject).kind = "[]string"
    /\ Normalized(RolesOf(rbacSubject).elems) = <<>>

\* C38: with the RBAC analyser and the RBAC info provider wired in, a subject
\* whose roles attribute is present but holds no non-blank role name makes
\* EvaluateAccess return an error: no decision is ever made for the request, and
\* the PEP answers 500.
C38_BlankRolesEndInError ==
    RolesPresentAndBlank =>
        /\ rbacPc \notin {"decide"}
        /\ rbacHttp.resp = NoAccessResponse
        /\ rbacPc \in {"serve", "done"} => rbacErr # NoError
        /\ rbacPc = "done" => rbacHttp.status = StatusInternalServerError

C38_Witness ==
    /\ RolesPresentAndBlank
    /\ rbacUser.roles = JsonRoles("array", <<<<Space>>, <<>>>>)
    /\ rbacInfoReqs # <<>>
    /\ rbacPc = "done"
    /\ rbacErr = <<"failed to get additional info", "failed to get info",
                   "at least one role name must be provided">>
    /\ rbacHttp.status = StatusInternalServerError

\* the RBAC resolver has selected the RBAC policy for the decision request
RbacPolicySelected ==
    \E i \in DOMAIN rbacRefs.refs :
        rbacRefs.refs[i] = PolicyIdReference(RBACPolicyKey, PolicyVersion)

\* C39: whenever the RBAC resolver has selected the RBAC policy for a decision
\* request, the Environment of that request holds role_hierarchy and
\* role_permissions, and they are what the RBAC info provider returns for the
\* subject's roles.
C39_SelectedPolicyHasRbacInfo ==
    RbacPolicySelected =>
        /\ ~rbacEnv.isNil
        /\ {"role_hierarchy", "role_permissions"} \subseteq DOMAIN rbacEnv.entries
        /\ rbacEnv = handle(RolesOf(rbacSubject).elems, TRUE).info

C39_Witness ==
    /\ RbacPolicySelected
    /\ rbacUser.roles = JsonRoles("array", <<<<Space, "customer", Space>>>>)
    /\ rbacEnv.entries.role_hierarchy.descendants = {"customer"}
    /\ rbacPc = "done"

\* every condition of the permission is satisfied
EveryConditionSatisfied(permission, access_context) ==
    \A i \in DOMAIN permission.conditions :
        is_condition_satisfied(permission.conditions[i], access_context)

\* C40: a permission the RBAC subject policy applies has the request's action
\* id as its action, the request's resource type as its resource, and every one
\* of its conditions satisfied.
C40_ApplicableOnlyIfAllConditionsHold ==
    \A pair \in rbacApplicable :
        LET permission == rbacEnv.entries.role_permissions[pair[1]][pair[2]]
            ctx == AccessContext(rbacReq, rbacSubject, rbacEnv)
        IN  /\ permission.action = rbacReq.action
            /\ permission.resource = rbacReq.resourceType
            /\ EveryConditionSatisfied(permission, ctx)

====
